---- MODULE Spec2Model ----
(***************************************************************************)
(* Verification model of the document-filling pipeline: the chat turn      *)
(* handler and its conversation / validation agents, the legal-grade       *)
(* document validator, the template generator's completeness gate and the  *)
(* parser's smart deduplication.                                           *)
(*                                                                         *)
(* JavaScript strings are modelled as sequences of one-character strings,  *)
(* so that toLowerCase, trim, includes, startsWith, substring and the      *)
(* regular expressions of the source are computed, not assumed.            *)
(***************************************************************************)
EXTENDS Integers, Sequences, FiniteSets, TLC

VARIABLES
  session,      \* the chat session record held by the session store
  lastReply,    \* kind of the last responseText pushed to the history
  lastTurn,     \* the request of the last chat turn taken without the LLM
  allFields,    \* smartDeduplication: the input field list
  uniqueFields, \* smartDeduplication: result of the first application
  againFields,  \* smartDeduplication: result of applying it to its result
  dedupPc,      \* smartDeduplication driver position
  genTemplate,  \* generator: the template (readable flag and full text)
  genFields,    \* generator: the caller's value map (ordered key/value list)
  genResult,    \* generator: outcome of generate
  genPc,        \* generator driver position
  valFields,    \* DocumentValidator.validate: the field list
  valFilled,    \* DocumentValidator.validate: the value map
  valResult,    \* DocumentValidator.validate: the ValidationResult
  valPc,        \* DocumentValidator.validate driver position
  cache,        \* HybridFieldDetector: the enrichment cache (key to enrichments)
  detFields,    \* detectFields: the input field list
  detLlm,       \* detectFields: what the Gemini call of this run did
  detText,      \* detectFields: the documentText argument
  detResult,    \* detectFields: the FieldDetectionResult
  detPc,        \* detectFields driver position
  detCall,      \* the running call: its cache key, whether the cache had it
  detPrev,      \* the call before: its cache key, how it ended, cache cleared since
  fmtAmount,    \* currency round trip: the amount
  fmtFormatted, \* currency round trip: formatCurrency's string
  fmtParsed,    \* currency round trip: parseCurrency's number
  fmtPc,        \* currency round trip driver position
  store,        \* SessionStore: the Map of session id to createdAt
  lastWritten,  \* when each stored session was last written (set calls)
  now,          \* the clock, in hours
  cleanedCount, \* the return value of the last cleanup
  storePc,      \* session store driver position
  objects,      \* chat route: the Session objects the store has held, by number
  stored,       \* chat route: the number of the object the store holds now
  filled,       \* chat route: the one filledFields object all of them share
  requests,     \* chat route: each request slot's position and captured locals
  stores,       \* chat route: answers the route has stored, overlaps seen
  docText,      \* parser: the full text of the uploaded template
  docParse,     \* parser: what EnhancedDocumentParser.parse returned
  docFields,    \* the field list parseDocument hands on
  exportGate,   \* export route: the value map and the generator's gate on it
  parsePc       \* parse and export driver position

vars == << session, lastReply, lastTurn, allFields, uniqueFields, againFields, dedupPc,
           genTemplate, genFields, genResult, genPc,
           valFields, valFilled, valResult, valPc,
           cache, detFields, detLlm, detText, detResult, detPc, detCall, detPrev,
           fmtAmount, fmtFormatted, fmtParsed, fmtPc,
           store, lastWritten, now, cleanedCount, storePc,
           objects, stored, filled, requests, stores,
           docText, docParse, docFields, exportGate, parsePc >>

chatVars == << session, lastReply, lastTurn >>
dedupVars == << allFields, uniqueFields, againFields, dedupPc >>
genVars == << genTemplate, genFields, genResult, genPc >>
valVars == << valFields, valFilled, valResult, valPc >>
detVars == << cache, detFields, detLlm, detText, detResult, detPc, detCall, detPrev >>
fmtVars == << fmtAmount, fmtFormatted, fmtParsed, fmtPc >>
storeVars == << store, lastWritten, now, cleanedCount, storePc >>
turnVars == << objects, stored, filled, requests, stores >>
parseVars == << docText, docParse, docFields, exportGate, parsePc >>

(***************************************************************************)
(* Bounds of the model.                                                    *)
(***************************************************************************)
MaxFields == 2

(***************************************************************************)
(* JavaScript string primitives.                                           *)
(***************************************************************************)
UpperChars == <<"A", "B", "C", "D", "E", "F", "G", "H", "I", "J", "K", "L", "M", "N", "O", "P", "Q", "R", "S", "T", "U", "V", "W", "X", "Y", "Z">>
LowerChars == <<"a", "b", "c", "d", "e", "f", "g", "h", "i", "j", "k", "l", "m", "n", "o", "p", "q", "r", "s", "t", "u", "v", "w", "x", "y", "z">>
Digits == {"0", "1", "2", "3", "4", "5", "6", "7", "8", "9"}

isWhitespace(c) == c \in {" ", "\t", "\n", "\r"}

UpperSet == {UpperChars[i] : i \in 1..Len(UpperChars)}
LowerOfUpper ==
  [c \in UpperSet |-> LowerChars[CHOOSE i \in 1..Len(UpperChars) : UpperChars[i] = c]]

toLowerChar(c) == IF c \in UpperSet THEN LowerOfUpper[c] ELSE c

toLowerCase(s) == [i \in 1..Len(s) |-> toLowerChar(s[i])]

RECURSIVE trimStart(_)
trimStart(s) ==
  IF s # << >> /\ isWhitespace(Head(s)) THEN trimStart(Tail(s)) ELSE s

RECURSIVE trimEnd(_)
trimEnd(s) ==
  IF s # << >> /\ isWhitespace(s[Len(s)])
  THEN trimEnd(SubSeq(s, 1, Len(s) - 1))
  ELSE s

trim(s) == trimEnd(trimStart(s))

startsWith(s, p) == Len(s) >= Len(p) /\ SubSeq(s, 1, Len(p)) = p

includes(s, p) ==
  \E i \in 0..(Len(s) - Len(p)) : SubSeq(s, i + 1, i + Len(p)) = p

\* String.prototype.substring(k): the characters from 0-based index k on.
substring(s, k) == SubSeq(s, k + 1, Len(s))

\* String.prototype.replace(/[chars]/g, ""): drop every character of the set.
RECURSIVE removeChars(_, _)
removeChars(s, cs) ==
  IF s = << >> THEN << >>
  ELSE IF Head(s) \in cs THEN removeChars(Tail(s), cs)
  ELSE << Head(s) >> \o removeChars(Tail(s), cs)

US_STATES ==
  { <<"a", "l", "a", "b", "a", "m", "a">>,
    <<"a", "l", "a", "s", "k", "a">>,
    <<"a", "r", "i", "z", "o", "n", "a">>,
    <<"a", "r", "k", "a", "n", "s", "a", "s">>,
    <<"c", "a", "l", "i", "f", "o", "r", "n", "i", "a">>,
    <<"c", "o", "l", "o", "r", "a", "d", "o">>,
    <<"c", "o", "n", "n", "e", "c", "t", "i", "c", "u", "t">>,
    <<"d", "e", "l", "a", "w", "a", "r", "e">>,
    <<"f", "l", "o", "r", "i", "d", "a">>,
    <<"g", "e", "o", "r", "g", "i", "a">>,
    <<"h", "a", "w", "a", "i", "i">>,
    <<"i", "d", "a", "h", "o">>,
    <<"i", "l", "l", "i", "n", "o", "i", "s">>,
    <<"i", "n", "d", "i", "a", "n", "a">>,
    <<"i", "o", "w", "a">>,
    <<"k", "a", "n", "s", "a", "s">>,
    <<"k", "e", "n", "t", "u", "c", "k", "y">>,
    <<"l", "o", "u", "i", "s", "i", "a", "n", "a">>,
    <<"m", "a", "i", "n", "e">>,
    <<"m", "a", "r", "y", "l", "a", "n", "d">>,
    <<"m", "a", "s", "s", "a", "c", "h", "u", "s", "e", "t", "t", "s">>,
    <<"m", "i", "c", "h", "i", "g", "a", "n">>,
    <<"m", "i", "n", "n", "e", "s", "o", "t", "a">>,
    <<"m", "i", "s", "s", "i", "s", "s", "i", "p", "p", "i">>,
    <<"m", "i", "s", "s", "o", "u", "r", "i">>,
    <<"m", "o", "n", "t", "a", "n", "a">>,
    <<"n", "e", "b", "r", "a", "s", "k", "a">>,
    <<"n", "e", "v", "a", "d", "a">>,
    <<"n", "e", "w", " ", "h", "a", "m", "p", "s", "h", "i", "r", "e">>,
    <<"n", "e", "w", " ", "j", "e", "r", "s", "e", "y">>,
    <<"n", "e", "w", " ", "m", "e", "x", "i", "c", "o">>,
    <<"n", "e", "w", " ", "y", "o", "r", "k">>,
    <<"n", "o", "r", "t", "h", " ", "c", "a", "r", "o", "l", "i", "n", "a">>,
    <<"n", "o", "r", "t", "h", " ", "d", "a", "k", "o", "t", "a">>,
    <<"o", "h", "i", "o">>,
    <<"o", "k", "l", "a", "h", "o", "m", "a">>,
    <<"o", "r", "e", "g", "o", "n">>,
    <<"p", "e", "n", "n", "s", "y", "l", "v", "a", "n", "i", "a">>,
    <<"r", "h", "o", "d", "e", " ", "i", "s", "l", "a", "n", "d">>,
    <<"s", "o", "u", "t", "h", " ", "c", "a", "r", "o", "l", "i", "n", "a">>,
    <<"s", "o", "u", "t", "h", " ", "d", "a", "k", "o", "t", "a">>,
    <<"t", "e", "n", "n", "e", "s", "s", "e", "e">>,
    <<"t", "e", "x", "a", "s">>,
    <<"u", "t", "a", "h">>,
    <<"v", "e", "r", "m", "o", "n", "t">>,
    <<"v", "i", "r", "g", "i", "n", "i", "a">>,
    <<"w", "a", "s", "h", "i", "n", "g", "t", "o", "n">>,
    <<"w", "e", "s", "t", " ", "v", "i", "r", "g", "i", "n", "i", "a">>,
    <<"w", "i", "s", "c", "o", "n", "s", "i", "n">>,
    <<"w", "y", "o", "m", "i", "n", "g">> }

MonthNames ==
  { <<"j", "a", "n">>,
    <<"f", "e", "b">>,
    <<"m", "a", "r">>,
    <<"a", "p", "r">>,
    <<"m", "a", "y">>,
    <<"j", "u", "n">>,
    <<"j", "u", "l">>,
    <<"a", "u", "g">>,
    <<"s", "e", "p">>,
    <<"o", "c", "t">>,
    <<"n", "o", "v">>,
    <<"d", "e", "c">> }

NavigationPhrases ==
  { <<"s", "k", "i", "p">>,
    <<"j", "u", "m", "p">>,
    <<"g", "o", " ", "t", "o">>,
    <<"m", "o", "v", "e", " ", "t", "o">>,
    <<"l", "e", "t", "'", "s", " ", "m", "o", "v", "e">>,
    <<"l", "e", "t", "s", " ", "m", "o", "v", "e">> }

(***************************************************************************)
(* Numbers.  parseFloat reads the longest decimal prefix (sign, digits,    *)
(* fraction); the result keeps its digits, so that comparisons with 0 and  *)
(* with powers of ten are exact at any magnitude.  Exponent notation and   *)
(* "Infinity" do not occur in the values this model feeds it.              *)
(***************************************************************************)
RECURSIVE takeDigits(_)
takeDigits(s) ==
  IF s # << >> /\ Head(s) \in Digits
  THEN << Head(s) >> \o takeDigits(Tail(s))
  ELSE << >>

NaN == [nan |-> TRUE, neg |-> FALSE, int |-> << >>, frac |-> << >>]

parseFloat(str) ==
  LET s == trimStart(str)
      neg == s # << >> /\ Head(s) = "-"
      body == IF s # << >> /\ Head(s) \in {"-", "+"} THEN Tail(s) ELSE s
      ip == takeDigits(body)
      rest == substring(body, Len(ip))
      fp == IF rest # << >> /\ Head(rest) = "."
            THEN takeDigits(Tail(rest))
            ELSE << >>
  IN  IF ip = << >> /\ fp = << >>
      THEN NaN
      ELSE [nan |-> FALSE, neg |-> neg, int |-> ip, frac |-> fp]

isNaN(n) == n.nan

numIsZero(n) ==
  /\ ~n.nan
  /\ \A i \in 1..Len(n.int) : n.int[i] = "0"
  /\ \A i \in 1..Len(n.frac) : n.frac[i] = "0"

\* number < 0
numLessThanZero(n) == ~n.nan /\ n.neg /\ ~numIsZero(n)

RECURSIVE stripLeadingZeros(_)
stripLeadingZeros(ds) ==
  IF ds # << >> /\ Head(ds) = "0" THEN stripLeadingZeros(Tail(ds)) ELSE ds

\* number > 10^k
numGreaterThanPow10(n, k) ==
  LET ip == stripLeadingZeros(n.int)
      onePow == \A i \in 1..Len(ip) : ip[i] = (IF i = 1 THEN "1" ELSE "0")
      fracNonZero == \E i \in 1..Len(n.frac) : n.frac[i] # "0"
  IN  /\ ~n.nan
      /\ ~n.neg
      /\ \/ Len(ip) > k + 1
         \/ Len(ip) = k + 1 /\ (~onePow \/ fracNonZero)

(***************************************************************************)
(* ValidationAgent: the lenient per-turn validator.                        *)
(***************************************************************************)
Valid == [valid |-> TRUE, error |-> "none"]
Invalid(e) == [valid |-> FALSE, error |-> e]

\* /^(.)\1+$/ : two or more characters, all the same.
isRepeatedChar(value) ==
  Len(value) >= 2 /\ \A i \in 1..Len(value) : value[i] = value[1]

validateText(value) ==
  IF Len(value) < 3 THEN Invalid("Please provide at least 3 characters.")
  ELSE IF Len(value) > 500 THEN Invalid("Please keep it under 500 characters.")
  ELSE IF isRepeatedChar(value)
       THEN Invalid("Please provide a meaningful value, not just repeated characters.")
  ELSE Valid

validateUSState(value) ==
  LET normalized == trim(toLowerCase(value))
      isValid == \E state \in US_STATES :
                    normalized = state \/ includes(normalized, state)
  IN  IF ~isValid THEN Invalid("Please enter a valid US state.") ELSE Valid

hasNumbers(value) == \E i \in 1..Len(value) : value[i] \in Digits

hasMonthName(value) ==
  \E m \in MonthNames : includes(toLowerCase(value), m)

isDigitAt(s, i) == i \in 1..Len(s) /\ s[i] \in Digits
isDateSepAt(s, i) == i \in 1..Len(s) /\ s[i] \in {"/", "-"}

\* /\d{1,2}[\/\-]\d{1,2}[\/\-]\d{2,4}/.test(value)
matchesNumericDate(value) ==
  \E i \in 1..Len(value) : \E a \in {1, 2} : \E b \in {1, 2} :
    /\ \A k \in 0..(a - 1) : isDigitAt(value, i + k)
    /\ isDateSepAt(value, i + a)
    /\ \A k \in 1..b : isDigitAt(value, i + a + k)
    /\ isDateSepAt(value, i + a + b + 1)
    /\ isDigitAt(value, i + a + b + 2)
    /\ isDigitAt(value, i + a + b + 3)

\* What `new Date(text)` yields.  Parsing of non-ISO text is left to the
\* engine, so the outcome is an input: not a date, a date whose year lies in
\* 1900..2100, or a date outside that range.
DateOutcomes == {"NaN", "in_range", "out_of_range"}

validateDate(value, dateObj) ==
  IF ~hasNumbers(value) /\ ~hasMonthName(value)
  THEN Invalid("Please enter a date (e.g., January 1, 2024 or 1/1/2024)")
  ELSE IF dateObj = "NaN"
       THEN IF hasNumbers(value) /\ (hasMonthName(value) \/ matchesNumericDate(value))
            THEN Valid
            ELSE Invalid("Please enter a valid date")
  ELSE IF dateObj = "out_of_range"
       THEN Invalid("Please enter a date between 1900 and 2100")
  ELSE Valid

validateCurrency(value) ==
  LET cleaned == removeChars(value, {"$", ",", " ", "\t", "\n", "\r"})
      number == parseFloat(cleaned)
  IN  IF isNaN(number) THEN Invalid("Please provide a valid amount.")
      ELSE IF numLessThanZero(number) THEN Invalid("Amount cannot be negative.")
      ELSE IF numGreaterThanPow10(number, 12)
           THEN Invalid("That amount seems unusually large. Please double-check.")
      ELSE Valid

validateEnum(value, options) ==
  IF options = {} THEN Valid
  ELSE IF trim(toLowerCase(value)) \notin {trim(toLowerCase(o)) : o \in options}
       THEN Invalid("Please choose one of the options")
  ELSE Valid

\* ValidationAgent.validateField; `data.options` is never passed by the chat.
validateField(value, fieldType, fieldName, dateObj) ==
  IF value = << >> THEN Invalid("Please provide a value.")
  ELSE LET trimmedValue == trim(value)
           fieldNameLower == toLowerCase(fieldName)
       IN  IF Len(trimmedValue) = 0 THEN Invalid("This field cannot be empty.")
           ELSE IF \/ includes(fieldNameLower, <<"s", "t", "a", "t", "e">>)
                   \/ includes(fieldNameLower, <<"j", "u", "r", "i", "s", "d", "i", "c", "t", "i", "o", "n">>)
                THEN validateUSState(trimmedValue)
           ELSE CASE fieldType = "text" -> validateText(trimmedValue)
                  [] fieldType = "date" -> validateDate(trimmedValue, dateObj)
                  [] fieldType = "currency" -> validateCurrency(trimmedValue)
                  [] fieldType = "enum" -> validateEnum(trimmedValue, {})
                  [] OTHER -> Valid

(***************************************************************************)
(* Fields.  A field id is the template string `field-${index}`, kept as    *)
(* the pair of its prefix and index.                                       *)
(***************************************************************************)
FieldId(prefix, index) == << prefix, index >>

\* EnhancedDocumentParser.inferFieldType
inferFieldType(placeholder) ==
  LET lower == toLowerCase(placeholder)
  IN  IF \/ includes(lower, <<"d", "a", "t", "e">>) \/ includes(lower, <<"d", "a", "y">>)
         \/ includes(lower, <<"m", "o", "n", "t", "h">>) \/ includes(lower, <<"y", "e", "a", "r">>)
      THEN "date"
      ELSE IF \/ includes(lower, <<"a", "m", "o", "u", "n", "t">>) \/ includes(lower, <<"p", "r", "i", "c", "e">>)
              \/ includes(lower, <<"c", "o", "s", "t">>) \/ includes(lower, <<"$">>)
              \/ includes(lower, <<"v", "a", "l", "u", "a", "t", "i", "o", "n">>) \/ includes(lower, <<"c", "a", "p">>)
              \/ includes(lower, <<"i", "n", "v", "e", "s", "t", "m", "e", "n", "t">>) \/ includes(lower, <<"p", "u", "r", "c", "h", "a", "s", "e">>)
      THEN "currency"
      ELSE "text"

Elements(arr) == { arr[i] : i \in 1..Len(arr) }

\* Array.prototype.find as an index: the first index whose element is one of
\* `found` (the elements satisfying the callback), 0 if there is none.
findIndex(arr, found) ==
  IF \E i \in 1..Len(arr) : arr[i] \in found
  THEN CHOOSE i \in 1..Len(arr) :
         arr[i] \in found /\ \A j \in 1..(i - 1) : arr[j] \notin found
  ELSE 0

\* Object.keys(obj).length
keyCount(obj) == Cardinality(DOMAIN obj)

\* obj[key] = value
setKey(obj, key, value) ==
  [k \in DOMAIN obj \cup {key} |-> IF k = key THEN value ELSE obj[k]]

(***************************************************************************)
(* ConversationAgent.                                                      *)
(***************************************************************************)
\* callLLM: it throws, or returns the model's text (`response.text || ""`).
LLMFailure == [ok |-> FALSE, text |-> << >>]
LLMTexts ==
  { <<"a", "n", "s", "w", "e", "r">>, <<" ", "Q", "u", "e", "s", "t", "i", "o", "n", "\n">>, <<"h", "e", "l", "p">>, <<"n", "a", "v", "i", "g", "a", "t", "e">>, <<"u", "n", "c", "l", "e", "a", "r">>,
    <<"m", "a", "y", "b", "e">> }
LLMOutcomes == {LLMFailure} \cup {[ok |-> TRUE, text |-> t] : t \in LLMTexts}

IntentWords ==
  { <<"a", "n", "s", "w", "e", "r">>, <<"q", "u", "e", "s", "t", "i", "o", "n">>, <<"h", "e", "l", "p">>, <<"n", "a", "v", "i", "g", "a", "t", "e">>, <<"u", "n", "c", "l", "e", "a", "r">> }

\* Variant of detectIntent whose catch block classifies the message as a
\* request for help.
detectIntent_failureAsHelp(userMessage, llm) ==
  LET lowerMessage == toLowerCase(userMessage)
  IN  IF \E p \in NavigationPhrases : includes(lowerMessage, p)
      THEN <<"n", "a", "v", "i", "g", "a", "t", "e">>
      ELSE IF ~llm.ok THEN <<"h", "e", "l", "p">>
      ELSE LET intent == trim(toLowerCase(llm.text))
           IN  IF intent \in IntentWords THEN intent ELSE <<"a", "n", "s", "w", "e", "r">>

detectIntent(userMessage, llm) ==
  LET lowerMessage == toLowerCase(userMessage)
  IN  IF \E p \in NavigationPhrases : includes(lowerMessage, p)
      THEN <<"n", "a", "v", "i", "g", "a", "t", "e">>
      ELSE IF ~llm.ok THEN <<"a", "n", "s", "w", "e", "r">>
      ELSE LET intent == trim(toLowerCase(llm.text))
           IN  IF intent \in IntentWords THEN intent ELSE <<"a", "n", "s", "w", "e", "r">>

Data(kind, conversational, retry, reviewPhase, skipTo) ==
  [success |-> TRUE, kind |-> kind, conversational |-> conversational,
   retry |-> retry, reviewPhase |-> reviewPhase, skipTo |-> skipTo]

NoData ==
  [success |-> FALSE, kind |-> "error", conversational |-> FALSE,
   retry |-> FALSE, reviewPhase |-> FALSE, skipTo |-> "none"]

\* `Object.keys(filledFields).length + 1`: the count once this answer is in.
filledCountAfter(filledFields) == keyCount(filledFields) + 1

\* Variant of isLastField with a strict comparison: the review phase would
\* never be announced by the agent.
isLastField_strict(fields, filledFields) ==
  filledCountAfter(filledFields) > Len(fields)

\* `filledCount >= fields.length`: this was the last field.
isLastField(fields, filledFields) ==
  filledCountAfter(filledFields) >= Len(fields)

navigationTarget(message, fields) ==
  LET targetFieldName == toLowerCase(message)
      matches(f) ==
        \/ includes(toLowerCase(f.placeholder), targetFieldName)
        \/ includes(targetFieldName, toLowerCase(f.placeholder))
  IN  findIndex(fields, { e \in Elements(fields) : matches(e) })

handleUserResponse(message, fields, filledFields, currentFieldId, llm, answerOk, dateObj) ==
  LET hasId(f) == f.id = currentFieldId
      idx == IF currentFieldId # "none"
             THEN findIndex(fields, { e \in Elements(fields) : hasId(e) })
             ELSE IF keyCount(filledFields) < Len(fields)
                  THEN keyCount(filledFields) + 1
                  ELSE 0
  IN  IF idx = 0 THEN NoData
      ELSE
        LET currentField == fields[idx]
            intent == detectIntent(message, llm)
        IN  IF intent = <<"n", "a", "v", "i", "g", "a", "t", "e">> \/ intent = <<"s", "k", "i", "p">>
            THEN LET target == navigationTarget(message, fields)
                 IN  IF target # 0
                     THEN Data("navigate_found", TRUE, FALSE, FALSE,
                               fields[target].id)
                     ELSE Data("navigate_not_found", TRUE, FALSE, FALSE, "none")
            ELSE IF intent = <<"q", "u", "e", "s", "t", "i", "o", "n">> \/ intent = <<"h", "e", "l", "p">>
            THEN Data(IF answerOk THEN "help_llm" ELSE "help_fallback",
                      TRUE, FALSE, FALSE, "none")
            ELSE
              LET validation ==
                    validateField(message, currentField.type,
                                  currentField.placeholder, dateObj)
              IN  IF ~validation.valid
                  THEN Data("retry", FALSE, TRUE, FALSE, "none")
                  ELSE IF isLastField(fields, filledFields)
                  THEN Data("review_summary", FALSE, FALSE, TRUE, "none")
                  ELSE Data("next_question", FALSE, FALSE, FALSE, "none")

(***************************************************************************)
(* The chat route: one POST is one conversation turn on a session.         *)
(***************************************************************************)
NoStatus == "unset"
NoField == "none"

inReviewPhase(s) ==
  s.status = "review" \/ keyCount(s.filledFields) >= Len(s.fields)

\* Variant of isConfirmCommand that also takes "review" and "check" for a
\* confirmation.
isConfirmCommand_orReview(messageLower) ==
  messageLower \in { <<"c", "o", "n", "f", "i", "r", "m">>, <<"d", "o", "n", "e">>, <<"f", "i", "n", "a", "l", "i", "z", "e">>, <<"r", "e", "v", "i", "e", "w">>, <<"c", "h", "e", "c", "k">> }

isConfirmCommand(messageLower) ==
  messageLower = <<"c", "o", "n", "f", "i", "r", "m">> \/ messageLower = <<"d", "o", "n", "e">>
    \/ messageLower = <<"f", "i", "n", "a", "l", "i", "z", "e">>

isReviewCommand(messageLower) ==
  messageLower = <<"r", "e", "v", "i", "e", "w">> \/ messageLower = <<"c", "h", "e", "c", "k">>

\* The review-phase commands (the `if (inReviewPhase)` block).
reviewBranch(s, message) ==
  LET messageLower == trim(toLowerCase(message))
  IN  IF isConfirmCommand(messageLower)
      THEN [session |-> [s EXCEPT !.status = "complete"], reply |-> "confirmed"]
      ELSE IF isReviewCommand(messageLower)
      THEN [session |-> s, reply |-> "review_report"]
      ELSE IF startsWith(messageLower, <<"c", "h", "a", "n", "g", "e", " ">>)
      THEN LET fieldNameToChange == toLowerCase(trim(substring(message, 7)))
               matches(f) ==
                 includes(toLowerCase(f.placeholder), fieldNameToChange)
               i == findIndex(s.fields, { e \in Elements(s.fields) : matches(e) })
           IN  IF i # 0
               THEN [session |-> [s EXCEPT !.changingField = s.fields[i].id,
                                           !.status = "changing"],
                     reply |-> "change_prompt"]
               ELSE [session |-> s, reply |-> "change_not_found"]
      ELSE [session |-> s, reply |-> "command_menu"]

\* The `else if (session.status === "changing" && session.changingField)` block.
changingBranch(s, message, dateObj) ==
  LET hasId(f) == f.id = s.changingField
      i == findIndex(s.fields, { e \in Elements(s.fields) : hasId(e) })
  IN  IF i = 0 THEN [session |-> s, reply |-> "empty"]
      ELSE LET fieldToUpdate == s.fields[i]
               validation ==
                 validateField(message, fieldToUpdate.type,
                               fieldToUpdate.placeholder, dateObj)
           IN  IF validation.valid
               THEN [session |->
                       [s EXCEPT !.filledFields =
                                    setKey(s.filledFields, s.changingField, message),
                                 !.changingField = NoField,
                                 !.status = "review"],
                     reply |-> "changed"]
               ELSE [session |-> s, reply |-> "change_retry"]

\* Variant of currentFieldIndex that points at the most recently filled
\* field instead of the first unfilled one.
currentFieldIndex_previous(s) ==
  IF keyCount(s.filledFields) = 0 THEN 1 ELSE keyCount(s.filledFields)

\* Variant of currentFieldIndex that always points at the last field.
currentFieldIndex_last(s) == Len(s.fields)

\* `Object.keys(session.filledFields).length`, as a 1-based position.
currentFieldIndex(s) == keyCount(s.filledFields) + 1

\* Variant of routeStoresAnswer that ignores the agent's retry flag.
routeStoresAnswer_ignoringRetry(data) == ~data.conversational

\* Variant of routeStoresAnswer that ignores the agent's conversational flag.
routeStoresAnswer_ignoringConversational(data) == ~data.retry

\* What the route does with the conversation agent's result.
routeStoresAnswer(data) == ~data.conversational /\ ~data.retry

\* The `else` block: normal field filling.
fillingBranch(s, message, llm, answerOk, dateObj) ==
  LET idx == currentFieldIndex(s)
  IN  IF idx > Len(s.fields) THEN [session |-> s, reply |-> "error"]
      ELSE
        LET currentField == s.fields[idx]
            result == handleUserResponse(message, s.fields, s.filledFields,
                                         currentField.id, llm, answerOk, dateObj)
        IN  IF ~routeStoresAnswer(result)
            THEN [session |-> s, reply |-> result.kind]
            ELSE IF result.reviewPhase
            THEN [session |->
                    [s EXCEPT !.filledFields =
                                 setKey(s.filledFields, currentField.id, message),
                              !.status = "review"],
                  reply |-> result.kind]
            ELSE [session |->
                    [s EXCEPT !.filledFields =
                                 setKey(s.filledFields, currentField.id, message)],
                  reply |-> result.kind]

\* POST with isFirstMessage = false.
ChatPOST(s, message, llm, answerOk, dateObj) ==
  IF inReviewPhase(s) THEN reviewBranch(s, message)
  ELSE IF s.status = "changing" /\ s.changingField # NoField
  THEN changingBranch(s, message, dateObj)
  ELSE fillingBranch(s, message, llm, answerOk, dateObj)

(***************************************************************************)
(* Specification of the chat state machine.  A session starts as the       *)
(* upload and parse routes leave it: the parsed fields, no filled field,   *)
(* no status.                                                              *)
(***************************************************************************)
PlaceholderPool ==
  << <<"C", "o", "m", "p", "a", "n", "y", " ", "N", "a", "m", "e">>, <<"P", "u", "r", "c", "h", "a", "s", "e", " ", "A", "m", "o", "u", "n", "t">>, <<"S", "t", "a", "t", "e", " ", "o", "f", " ", "I", "n", "c", "o", "r", "p", "o", "r", "a", "t", "i", "o", "n">>,
     <<"D", "a", "t", "e", " ", "o", "f", " ", "S", "a", "f", "e">>, <<"I", "n", "v", "e", "s", "t", "o", "r", " ", "N", "a", "m", "e">> >>

\* The structured fields of a template whose tags are `n` pool entries
\* starting at `offset` (EnhancedDocumentParser.extractStructuredTags).
SessionFields(offset, n) ==
  [i \in 1..n |->
     LET tag == PlaceholderPool[((offset + i - 1) % Len(PlaceholderPool)) + 1]
     IN  [id |-> FieldId("field-", i - 1),
          placeholder |-> tag,
          type |-> inferFieldType(tag),
          required |-> TRUE,
          order |-> i - 1]]

NewSession(fields) ==
  [fields |-> fields, filledFields |-> << >>,
   status |-> NoStatus, changingField |-> NoField]

Messages ==
  { <<"c", "o", "n", "f", "i", "r", "m">>, <<" ", "D", "o", "n", "e", " ">>, <<"f", "i", "n", "a", "l", "i", "z", "e">>, <<"r", "e", "v", "i", "e", "w">>,
    <<"c", "h", "a", "n", "g", "e", " ", "n", "a", "m", "e">>, <<"c", "h", "a", "n", "g", "e", " ", "z", "i", "p">>,
    <<"A", "c", "m", "e", " ", "I", "n", "c">>, <<"$", "1", "0", "0">>, <<"a", "b">>, <<"T", "e", "x", "a", "s">>, <<"1", "/", "1", "/", "2", "0", "2", "4">>, <<"s", "k", "i", "p">>,
    <<"g", "o", " ", "t", "o", " ", "P", "u", "r", "c", "h", "a", "s", "e", " ", "A", "m", "o", "u", "n", "t">>, << >> }

\* The variables of the other components rest while one is checked.
ChatIdle == session = "idle" /\ lastReply = "idle" /\ lastTurn = "idle"
DedupIdle ==
  /\ allFields = "idle" /\ uniqueFields = "idle"
  /\ againFields = "idle" /\ dedupPc = "idle"
GenIdle ==
  /\ genTemplate = "idle" /\ genFields = "idle"
  /\ genResult = "idle" /\ genPc = "idle"
ValIdle ==
  /\ valFields = "idle" /\ valFilled = "idle"
  /\ valResult = "idle" /\ valPc = "idle"
DetIdle ==
  /\ cache = "idle" /\ detFields = "idle" /\ detLlm = "idle" /\ detText = "idle"
  /\ detResult = "idle" /\ detPc = "idle"
  /\ detCall = "idle" /\ detPrev = "idle"
FmtIdle ==
  /\ fmtAmount = "idle" /\ fmtFormatted = "idle" /\ fmtParsed = "idle" /\ fmtPc = "idle"

\* No turn has been taken from session s.
NoTurn(s) ==
  [pc |-> "none", message |-> << >>, llm |-> LLMFailure, dateObj |-> "NaN",
   valid |-> FALSE, before |-> s]
StoreIdle ==
  /\ store = "idle" /\ lastWritten = "idle" /\ now = "idle"
  /\ cleanedCount = "idle" /\ storePc = "idle"
TurnIdle ==
  /\ objects = "idle" /\ stored = "idle" /\ filled = "idle" /\ requests = "idle" /\ stores = "idle"
ParseIdle ==
  /\ docText = "idle" /\ docParse = "idle" /\ docFields = "idle"
  /\ exportGate = "idle" /\ parsePc = "idle"

ChatInit ==
  /\ session \in { NewSession(SessionFields(offset, n)) :
                     offset \in 0..(Len(PlaceholderPool) - 1), n \in 1..MaxFields }
  /\ lastReply = "none"
  /\ lastTurn = NoTurn(session)
  /\ DedupIdle /\ GenIdle /\ ValIdle /\ DetIdle /\ FmtIdle /\ StoreIdle /\ TurnIdle /\ ParseIdle

\* POST with isFirstMessage = true: the greeting; the session is not changed.
StartConversation ==
  /\ lastReply = "none"
  /\ lastReply' = "greeting"
  /\ UNCHANGED << session, lastTurn, dedupVars, genVars, valVars, detVars, fmtVars, storeVars, turnVars, parseVars >>

\* POST with isFirstMessage = false.  The intent classifier is consulted
\* only while collecting, the question answerer only for a question or a
\* request for help, and `new Date` only where a date field is validated.
collecting(s) ==
  ~inReviewPhase(s) /\ ~(s.status = "changing" /\ s.changingField # NoField)

validatesDate(s) ==
  /\ ~inReviewPhase(s)
  /\ \E i \in 1..Len(s.fields) :
       /\ s.fields[i].type = "date"
       /\ \/ s.fields[i].id = s.changingField
          \/ i = currentFieldIndex(s)

ChatTurn ==
  \E message \in Messages :
  \E llm \in (IF collecting(session) THEN LLMOutcomes ELSE {LLMFailure}) :
  \E answerOk \in (IF /\ collecting(session)
                       /\ detectIntent(message, llm) \in {<<"q", "u", "e", "s", "t", "i", "o", "n">>, <<"h", "e", "l", "p">>}
                    THEN BOOLEAN ELSE {FALSE}) :
  \E dateObj \in (IF validatesDate(session) THEN DateOutcomes ELSE {"NaN"}) :
    LET r == ChatPOST(session, message, llm, answerOk, dateObj)
    IN  /\ session' = r.session
        /\ lastReply' = r.reply
        /\ UNCHANGED << lastTurn, dedupVars, genVars, valVars, detVars, fmtVars, storeVars, turnVars, parseVars >>

Next == StartConversation \/ ChatTurn

Spec == ChatInit /\ [][Next]_vars

(***************************************************************************)
(* Properties of the chat state machine.                                   *)
(***************************************************************************)
\* The active field of a session: fields[count(filledFields)], 1-based.
ActivePos(s) == Cardinality(DOMAIN s.filledFields) + 1

TreatedAsAnswer(message, llm) ==
  detectIntent(message, llm) \in { <<"a", "n", "s", "w", "e", "r">>, <<"u", "n", "c", "l", "e", "a", "r">> }

\* C1: in the collecting phase, a message treated as an answer that fails
\* validation for the active field leaves the active field and the number of
\* filledFields entries unchanged; one that passes is stored under the active
\* field's id, the number of entries grows by exactly one and the active
\* field moves forward by exactly one position.
C1_AnswerAdvancesOnlyWhenValid ==
  collecting(session) =>
    \A message \in Messages : \A llm \in LLMOutcomes :
    \A answerOk \in BOOLEAN : \A dateObj \in DateOutcomes :
      TreatedAsAnswer(message, llm) =>
        LET active == session.fields[ActivePos(session)]
            passes == validateField(message, active.type,
                                    active.placeholder, dateObj).valid
            after == ChatPOST(session, message, llm, answerOk, dateObj).session
        IN  IF passes
            THEN /\ active.id \in DOMAIN after.filledFields
                 /\ after.filledFields[active.id] = message
                 /\ Cardinality(DOMAIN after.filledFields)
                      = Cardinality(DOMAIN session.filledFields) + 1
                 /\ ActivePos(after) = ActivePos(session) + 1
            ELSE /\ after.filledFields = session.filledFields
                 /\ ActivePos(after) = ActivePos(session)

\* C1 witness: an answer was accepted and a further field is now active.
C1_Witness ==
  /\ lastReply = "next_question"
  /\ Cardinality(DOMAIN session.filledFields) = 1
  /\ collecting(session)

\* C2: a session with N fields enters reviewing in exactly the turn in which
\* the N-th valid answer is accepted, never earlier, and from reviewing the
\* message "confirm" (also "done" or "finalize") moves it to complete.
C2_ReviewAfterLastAnswerThenConfirm ==
  LET N == Len(session.fields)
      count == Cardinality(DOMAIN session.filledFields)
  IN  /\ session.status = "review" => count = N
      /\ collecting(session) =>
           \A message \in Messages : \A llm \in LLMOutcomes :
           \A dateObj \in DateOutcomes :
             LET active == session.fields[ActivePos(session)]
                 accepted ==
                   /\ TreatedAsAnswer(message, llm)
                   /\ validateField(message, active.type,
                                    active.placeholder, dateObj).valid
                 after == ChatPOST(session, message, llm, TRUE, dateObj).session
             IN  (after.status = "review") <=> (accepted /\ count + 1 = N)
      /\ session.status = "review" =>
           \A message \in { <<"c", "o", "n", "f", "i", "r", "m">>, <<"d", "o", "n", "e">>, <<"f", "i", "n", "a", "l", "i", "z", "e">> } :
             ChatPOST(session, message, LLMFailure, FALSE, "NaN").session.status
               = "complete"

\* C2 witness: the last of at least two answers has just put the session in
\* reviewing.
C2_Witness ==
  /\ session.status = "review"
  /\ lastReply = "review_summary"
  /\ Len(session.fields) >= 2

\* C3: after "change <name>" has matched a field and put the session in the
\* changing state, the very next message is the replacement value for the
\* pending field: if it validates, the field's entry becomes the message, the
\* pending pointer is cleared and the status returns to reviewing; if not,
\* status, pending pointer and filledFields are unchanged.
C3_NextMessageReplacesPendingField ==
  (session.status = "changing" /\ lastReply = "change_prompt") =>
    \A message \in Messages : \A dateObj \in DateOutcomes :
      LET pending == CHOOSE f \in {session.fields[i] : i \in 1..Len(session.fields)} :
                       f.id = session.changingField
          passes == validateField(message, pending.type,
                                  pending.placeholder, dateObj).valid
          after == ChatPOST(session, message, LLMFailure, FALSE, dateObj).session
      IN  IF passes
          THEN /\ after.filledFields[pending.id] = message
               /\ after.changingField = NoField
               /\ after.status = "review"
          ELSE after = session

\* C4: no single turn takes a session from changing to complete: a turn that
\* starts in changing ends in changing or reviewing.
C4_ChangingNeverStraightToComplete ==
  [][ session.status = "changing"
        => session'.status \in {"changing", "review"} ]_vars

\* C5: complete is terminal: no later message changes the status, the
\* pending-edit pointer or any filledFields entry.
C5_CompleteIsTerminal ==
  [][ session.status = "complete"
        => /\ session'.status = "complete"
           /\ session'.changingField = session.changingField
           /\ session'.filledFields = session.filledFields ]_vars

\* C6: an existing filledFields entry changes its value only in a turn that
\* completes a changing cycle for that same field; an answer given in the
\* collecting phase creates a new entry and overwrites none.
C6_EntriesOverwrittenOnlyByChangeCycle ==
  [][ /\ \A id \in DOMAIN session.filledFields :
           /\ id \in DOMAIN session'.filledFields
           /\ session'.filledFields[id] # session.filledFields[id]
                => /\ session.status = "changing"
                   /\ session.changingField = id
                   /\ session'.status = "review"
      /\ (collecting(session) /\ session'.filledFields # session.filledFields)
           => /\ Cardinality(DOMAIN session'.filledFields)
                   = Cardinality(DOMAIN session.filledFields) + 1
              /\ \A id \in DOMAIN session.filledFields :
                   session'.filledFields[id] = session.filledFields[id] ]_vars

\* C6 witness: a collecting answer has been stored next to an earlier entry.
C6_Witness ==
  /\ lastReply \in {"next_question", "review_summary"}
  /\ Cardinality(DOMAIN session.filledFields) >= 2

\* A user who answers the active field with a value that passes validation
\* and holds no navigation phrase, while every call of the LLM fails.
HasNavigationPhrase(message) ==
  \E p \in NavigationPhrases : includes(toLowerCase(message), p)

\* What the classifier gets from an LLM that fails or answers with something
\* that is none of the five intent words.
NoIntentOutcomes == { LLMFailure, [ok |-> TRUE, text |-> <<"m", "a", "y", "b", "e">>] }

\* The user sends a message without navigation phrase while the session is
\* collecting, and the LLM will give no intent word for it.  `valid` notes
\* whether the message passes the validation of the active field.
OfflineSend ==
  \E message \in Messages : \E llm \in NoIntentOutcomes :
  \E dateObj \in (IF validatesDate(session) THEN DateOutcomes ELSE {"NaN"}) :
    /\ collecting(session)
    /\ lastTurn.pc # "sent"
    /\ ~HasNavigationPhrase(message)
    /\ lastTurn' =
         [pc |-> "sent", message |-> message, llm |-> llm, dateObj |-> dateObj,
          valid |-> validateField(message,
                                  session.fields[ActivePos(session)].type,
                                  session.fields[ActivePos(session)].placeholder,
                                  dateObj).valid,
          before |-> session]
    /\ UNCHANGED << session, lastReply >>
    /\ UNCHANGED << dedupVars, genVars, valVars, detVars, fmtVars, storeVars, turnVars, parseVars >>

\* POST with isFirstMessage = false, for the message sent.
OfflineChatTurn ==
  /\ lastTurn.pc = "sent"
  /\ LET r == ChatPOST(session, lastTurn.message, lastTurn.llm, FALSE,
                       lastTurn.dateObj)
     IN  /\ session' = r.session
         /\ lastReply' = r.reply
  /\ lastTurn' = [lastTurn EXCEPT !.pc = "handled"]
  /\ UNCHANGED << dedupVars, genVars, valVars, detVars, fmtVars, storeVars, turnVars, parseVars >>

NextOffline == StartConversation \/ OfflineSend \/ OfflineChatTurn

\* Every message sent gets handled, and until the session is in reviewing
\* the user sends a valid answer again and again.
SpecOffline ==
  /\ ChatInit /\ [][NextOffline]_vars
  /\ []<>(lastTurn.pc # "sent")
  /\ []<>(session.status = "review" \/ (lastTurn.pc = "sent" /\ lastTurn.valid))

\* While a session is collecting, some message without navigation phrase
\* is valid for the active field: the user of SpecOffline can always go on.
AnswerAvailable ==
  collecting(session) =>
    \E message \in Messages : \E dateObj \in DateOutcomes :
      /\ ~HasNavigationPhrase(message)
      /\ validateField(message, session.fields[ActivePos(session)].type,
                       session.fields[ActivePos(session)].placeholder,
                       dateObj).valid

\* The last turn was processed as an answer: classified as one, validated
\* against the field that was active, stored under its id if valid and
\* without effect on the session otherwise.
ProcessedAsAnswer ==
  lastTurn.pc = "handled" =>
    LET before == lastTurn.before
        active == before.fields[ActivePos(before)]
        passes == validateField(lastTurn.message, active.type,
                                active.placeholder, lastTurn.dateObj).valid
    IN  /\ detectIntent(lastTurn.message, lastTurn.llm) = <<"a", "n", "s", "w", "e", "r">>
        /\ IF passes
           THEN /\ active.id \in DOMAIN session.filledFields
                /\ session.filledFields[active.id] = lastTurn.message
                /\ Cardinality(DOMAIN session.filledFields)
                     = Cardinality(DOMAIN before.filledFields) + 1
           ELSE session = before

\* C16: when the intent classification call fails or returns none of the
\* five intent words, the message is processed as an answer: validated
\* against the active field and stored if valid; and with the LLM giving
\* no intent on any call, a session given valid answers without navigation
\* phrase reaches reviewing.
C16_AnswersWithoutLLM ==
  /\ []ProcessedAsAnswer
  /\ <>(session.status = "review")

\* C16 witness: two fields were answered while the LLM failed and the
\* session is in reviewing.
C16_Witness ==
  /\ lastTurn.pc = "handled" /\ lastTurn.llm = LLMFailure
  /\ session.status = "review"
  /\ lastReply = "review_summary"
  /\ Len(session.fields) = 2
  /\ Cardinality(DOMAIN session.filledFields) = 2

(***************************************************************************)
(* EnhancedDocumentParser.smartDeduplication.                              *)
(***************************************************************************)
MaxDedupLen == 3

\* The character class [_\s-].
isSeparator(c) == c = "_" \/ c = "-" \/ isWhitespace(c)

RECURSIVE dropSeparators(_)
dropSeparators(s) ==
  IF s # << >> /\ isSeparator(Head(s)) THEN dropSeparators(Tail(s)) ELSE s

\* .replace(/[_\s-]+/g, ' '): every maximal run becomes one space.
RECURSIVE foldSeparators(_)
foldSeparators(s) ==
  IF s = << >> THEN << >>
  ELSE IF isSeparator(Head(s))
       THEN << " " >> \o foldSeparators(dropSeparators(Tail(s)))
       ELSE << Head(s) >> \o foldSeparators(Tail(s))

\* Variant of normalizePlaceholder that skips toLowerCase().
normalizePlaceholder_caseSensitive(placeholder) ==
  trim(foldSeparators(placeholder))

\* const normalized = field.placeholder.toLowerCase()
\*                      .replace(/[_\s-]+/g, ' ').trim()
normalizePlaceholder(placeholder) ==
  trim(foldSeparators(toLowerCase(placeholder)))

\* Variant of replacesSurvivor in which any non-text duplicate replaces the
\* survivor, whatever the survivor's type.
replacesSurvivor_anyNonText(field, existing) == field.type # "text"

\* if (field.type !== 'text' && existing.type === 'text')
replacesSurvivor(field, existing) ==
  field.type # "text" /\ existing.type = "text"

\* The forEach over the input; `seen` is the Map in insertion order, a
\* sequence of [key, field] pairs.  Map.set on a present key keeps its place.
RECURSIVE dedupFrom(_, _, _)
dedupFrom(fields, i, seen) ==
  IF i > Len(fields) THEN seen
  ELSE
    LET field == fields[i]
        normalized == normalizePlaceholder(field.placeholder)
        hasKey(e) == e.key = normalized
        at == findIndex(seen, { e \in Elements(seen) : hasKey(e) })
    IN  IF at = 0
        THEN dedupFrom(fields, i + 1,
                       Append(seen, [key |-> normalized, field |-> field]))
        ELSE IF replacesSurvivor(field, seen[at].field)
        THEN dedupFrom(fields, i + 1, [seen EXCEPT ![at].field = field])
        ELSE dedupFrom(fields, i + 1, seen)

\* Variant of smartDeduplication that returns the map's values in reverse.
smartDeduplication_reversed(fields) ==
  LET seen == dedupFrom(fields, 1, << >>)
  IN  [i \in 1..Len(seen) |-> seen[Len(seen) + 1 - i].field]

\* return Array.from(seen.values())
smartDeduplication(fields) ==
  LET seen == dedupFrom(fields, 1, << >>)
  IN  [i \in 1..Len(seen) |-> seen[i].field]

\* Placeholders a document can carry, several of them spelling one name.
DedupPlaceholders ==
  { <<"C", "o", "m", "p", "a", "n", "y", " ", "N", "a", "m", "e">>, <<"c", "o", "m", "p", "a", "n", "y", "_", "n", "a", "m", "e">>, <<" ", "C", "O", "M", "P", "A", "N", "Y", "-", "-", "N", "a", "m", "e">>,
    <<"P", "u", "r", "c", "h", "a", "s", "e", " ", "A", "m", "o", "u", "n", "t">> }

DedupTypes == {"text", "date", "currency"}

DedupShapes == [placeholder : DedupPlaceholders, type : DedupTypes]

\* The parser numbers the fields it extracts: id field-<index>, order <index>.
ParsedFields(shapes) ==
  [i \in 1..Len(shapes) |->
     [id |-> FieldId("field-", i - 1),
      placeholder |-> shapes[i].placeholder,
      type |-> shapes[i].type,
      required |-> TRUE,
      order |-> i - 1]]

DedupInit ==
  /\ allFields \in { ParsedFields(shapes) :
                       shapes \in UNION { [1..n -> DedupShapes] : n \in 0..MaxDedupLen } }
  /\ uniqueFields = << >>
  /\ againFields = << >>
  /\ dedupPc = "input"
  /\ ChatIdle /\ GenIdle /\ ValIdle /\ DetIdle /\ FmtIdle /\ StoreIdle /\ TurnIdle /\ ParseIdle

\* uniqueFields = parser.smartDeduplication(allFields)
Deduplicate ==
  /\ dedupPc = "input"
  /\ uniqueFields' = smartDeduplication(allFields)
  /\ dedupPc' = "once"
  /\ UNCHANGED << allFields, againFields, chatVars, genVars, valVars, detVars, fmtVars, storeVars, turnVars, parseVars >>

\* A second pass over the first pass's output.
DeduplicateAgain ==
  /\ dedupPc = "once"
  /\ againFields' = smartDeduplication(uniqueFields)
  /\ dedupPc' = "twice"
  /\ UNCHANGED << allFields, uniqueFields, chatVars, genVars, valVars, detVars, fmtVars, storeVars, turnVars, parseVars >>

NextDedup == Deduplicate \/ DeduplicateAgain

SpecDedup == DedupInit /\ [][NextDedup]_vars

\* The key the specification gives a placeholder: lower-case, every run of
\* underscores, whitespace and hyphens folded to one space, trimmed.  Written
\* position by position, independently of normalizePlaceholder.
NormalKey(placeholder) ==
  LET blank(i) == placeholder[i] \in {"_", "-", " ", "\t", "\n", "\r"}
      n == Len(placeholder)
      keep(i) ==
        \/ ~blank(i)
        \/ /\ i > 1 /\ ~blank(i - 1)
           /\ \E j \in (i + 1)..n : ~blank(j)
      kept == SelectSeq([i \in 1..n |-> i], keep)
  IN  [k \in 1..Len(kept) |->
         IF blank(kept[k]) THEN " " ELSE toLowerChar(placeholder[kept[k]])]

\* C9: the output of smartDeduplication contains no two fields whose
\* placeholders normalize to the same key, and every normalized key present
\* in the input is present exactly once in the output.
C9_OneFieldPerNormalizedKey ==
  dedupPc \in {"once", "twice"} =>
    /\ \A i, j \in 1..Len(uniqueFields) :
         i # j => NormalKey(uniqueFields[i].placeholder)
                    # NormalKey(uniqueFields[j].placeholder)
    /\ \A i \in 1..Len(allFields) :
         Cardinality({ j \in 1..Len(uniqueFields) :
                         NormalKey(uniqueFields[j].placeholder)
                           = NormalKey(allFields[i].placeholder) }) = 1

\* C9 witness: duplicates were folded away and two distinct keys remain.
C9_Witness ==
  /\ dedupPc = "once"
  /\ Len(uniqueFields) = 2
  /\ Len(allFields) = 3

\* C10: smartDeduplication is idempotent: applying it to its own output
\* gives the same list, same fields in the same order.
C10_DeduplicationIdempotent ==
  dedupPc = "twice" => againFields = uniqueFields

\* C10 witness: the second pass ran over an output of two fields that came
\* from an input with a duplicate.
C10_Witness ==
  /\ dedupPc = "twice"
  /\ Len(againFields) = 2
  /\ Len(allFields) = 3

\* Positions of the input whose placeholder has the given key.
KeyOccurrences(key) ==
  { i \in 1..Len(allFields) : NormalKey(allFields[i].placeholder) = key }

Least(S) == CHOOSE i \in S : \A j \in S : i <= j

\* Positions of the input at which a key occurs for the first time.
FirstOccurrences ==
  { i \in 1..Len(allFields) :
      \A j \in 1..(i - 1) : NormalKey(allFields[j].placeholder)
                               # NormalKey(allFields[i].placeholder) }

\* The field the specification lets survive for a key: the first occurrence,
\* unless that is typed text and a later duplicate is not, in which case the
\* first non-text duplicate.
ExpectedSurvivor(key) ==
  LET occ == KeyOccurrences(key)
      nonText == { i \in occ : allFields[i].type # "text" }
  IN  IF allFields[Least(occ)].type = "text" /\ nonText # {}
      THEN allFields[Least(nonText)]
      ELSE allFields[Least(occ)]

\* C11: for each normalized key the surviving field is the first occurrence,
\* except that a text survivor is replaced by a later non-text duplicate; a
\* non-text survivor is never replaced; the survivor stands at the output
\* position of the key's first occurrence.  In particular "Purchase Amount"
\* typed text then currency leaves exactly one entry, typed currency.
C11_SurvivorPerKey ==
  dedupPc \in {"once", "twice"} =>
    /\ Len(uniqueFields) = Cardinality(FirstOccurrences)
    /\ \A p \in 1..Len(uniqueFields) :
         LET first == CHOOSE i \in FirstOccurrences :
                        Cardinality({ j \in FirstOccurrences : j <= i }) = p
         IN  uniqueFields[p]
               = ExpectedSurvivor(NormalKey(allFields[first].placeholder))
    /\ (/\ Len(allFields) = 2
        /\ allFields[1].placeholder = <<"P", "u", "r", "c", "h", "a", "s", "e", " ", "A", "m", "o", "u", "n", "t">>
        /\ allFields[2].placeholder = <<"P", "u", "r", "c", "h", "a", "s", "e", " ", "A", "m", "o", "u", "n", "t">>
        /\ allFields[1].type = "text" /\ allFields[2].type = "currency")
         => (Len(uniqueFields) = 1 /\ uniqueFields[1].type = "currency")

\* C11 witness: "Purchase Amount" typed text then currency was deduplicated
\* to the currency field.
C11_Witness ==
  /\ dedupPc = "once"
  /\ Len(allFields) = 2
  /\ allFields[1].placeholder = <<"P", "u", "r", "c", "h", "a", "s", "e", " ", "A", "m", "o", "u", "n", "t">>
  /\ allFields[2].placeholder = <<"P", "u", "r", "c", "h", "a", "s", "e", " ", "A", "m", "o", "u", "n", "t">>
  /\ allFields[1].type = "text" /\ allFields[2].type = "currency"
  /\ uniqueFields = << allFields[2] >>

(***************************************************************************)
(* DocumentValidator: the legal-grade validator run before generation.     *)
(***************************************************************************)
MaxValFields == 2

\* Variant of numAtMostZero that lets zero through (number < 0).
numAtMostZero_negativeOnly(n) == ~n.nan /\ n.neg /\ ~numIsZero(n)

\* number <= 0
numAtMostZero(n) == ~n.nan /\ (n.neg \/ numIsZero(n))

\* number < 10^k
numLessThanPow10(n, k) ==
  /\ ~n.nan
  /\ \/ n.neg
     \/ Len(stripLeadingZeros(n.int)) <= k

\* parseCurrency: the parsed number; NaN stands for the thrown Error.
parseCurrency(currencyString) ==
  parseFloat(removeChars(currencyString, {"$", ",", " ", "\t", "\n", "\r"}))

ValidationError(field, code) == [field |-> field.placeholder, code |-> code]

ValidationWarning(field, message, severity) ==
  [field |-> field.placeholder, message |-> message, severity |-> severity]

NoFindings == [errors |-> << >>, warnings |-> << >>]

Findings(errors, warnings) == [errors |-> errors, warnings |-> warnings]

\* What date-fns parse / new Date and the clock make of a date value.
DateParses ==
  {"unparsable", "over_a_year_ago", "within_a_year", "over_a_year_ahead"}

DocumentValidator_validateCurrency(field, value) ==
  LET amount == parseCurrency(value)
  IN  IF isNaN(amount)
      THEN Findings(<< ValidationError(field, "INVALID_CURRENCY") >>, << >>)
      ELSE IF numAtMostZero(amount)
      THEN Findings(<< ValidationError(field, "INVALID_AMOUNT") >>, << >>)
      ELSE Findings(<< >>,
             (IF /\ numLessThanPow10(amount, 3)
                 /\ includes(toLowerCase(field.placeholder), <<"i", "n", "v", "e", "s", "t", "m", "e", "n", "t">>)
              THEN << ValidationWarning(field,
                        "Investment amount seems unusually low", "medium") >>
              ELSE << >>)
             \o
             (IF numGreaterThanPow10(amount, 8)
              THEN << ValidationWarning(field,
                        "Amount is very large, please double-check", "medium") >>
              ELSE << >>))

DocumentValidator_validateDate(field, parsed) ==
  IF parsed = "unparsable"
  THEN Findings(<< ValidationError(field, "INVALID_DATE") >>, << >>)
  ELSE IF parsed = "over_a_year_ago"
  THEN Findings(<< >>, << ValidationWarning(field,
                            "Date is more than a year in the past", "low") >>)
  ELSE IF parsed = "over_a_year_ahead"
  THEN Findings(<< >>, << ValidationWarning(field,
                            "Date is more than a year in the future", "low") >>)
  ELSE NoFindings

\* /^[^\s@]+@[^\s@]+\.[^\s@]+$/
isEmail(value) ==
  /\ \A i \in 1..Len(value) : ~isWhitespace(value[i])
  /\ Cardinality({ i \in 1..Len(value) : value[i] = "@" }) = 1
  /\ \E a \in 2..Len(value) :
       /\ value[a] = "@"
       /\ \E d \in (a + 2)..(Len(value) - 1) : value[d] = "."

DocumentValidator_validateText(field, value) ==
  IF Len(trim(value)) < 2
  THEN Findings(<< ValidationError(field, "VALUE_TOO_SHORT") >>, << >>)
  ELSE Findings(
         IF /\ includes(toLowerCase(field.placeholder), <<"e", "m", "a", "i", "l">>)
            /\ ~isEmail(value)
         THEN << ValidationError(field, "INVALID_EMAIL") >>
         ELSE << >>,
         IF Len(value) > 500
         THEN << ValidationWarning(field, "Value is very long", "low") >>
         ELSE << >>)

validStates ==
  { <<"d", "e", "l", "a", "w", "a", "r", "e">>, <<"c", "a", "l", "i", "f", "o", "r", "n", "i", "a">>, <<"n", "e", "w", " ", "y", "o", "r", "k">>, <<"t", "e", "x", "a", "s">>, <<"f", "l", "o", "r", "i", "d", "a">>,
    <<"n", "e", "v", "a", "d", "a">>, <<"w", "y", "o", "m", "i", "n", "g">>, <<"d", "e">>, <<"c", "a">>, <<"n", "y">>, <<"t", "x">>, <<"f", "l">>,
    <<"n", "v">>, <<"w", "y">> }

\* /^\[.*\]$/, /^___+$/, /^company$/i, /^investor$/i, /^name$/i
isPlaceholderValue(v) ==
  \/ Len(v) >= 2 /\ v[1] = "[" /\ v[Len(v)] = "]"
       /\ \A i \in 1..Len(v) : v[i] \notin {"\n", "\r"}
  \/ Len(v) >= 3 /\ \A i \in 1..Len(v) : v[i] = "_"
  \/ toLowerCase(v) \in { <<"c", "o", "m", "p", "a", "n", "y">>, <<"i", "n", "v", "e", "s", "t", "o", "r">>, <<"n", "a", "m", "e">> }

validateSpecialFields(field, value) ==
  LET lower == toLowerCase(field.placeholder)
      amount == parseCurrency(value)
  IN  Findings(
        IF /\ includes(lower, <<"c", "o", "m", "p", "a", "n", "y">>) \/ includes(lower, <<"i", "n", "v", "e", "s", "t", "o", "r">>)
           /\ includes(lower, <<"n", "a", "m", "e">>)
           /\ isPlaceholderValue(trim(value))
        THEN << ValidationError(field, "PLACEHOLDER_VALUE") >>
        ELSE << >>,
        (IF /\ includes(lower, <<"s", "t", "a", "t", "e">>) /\ includes(lower, <<"i", "n", "c", "o", "r", "p", "o", "r", "a", "t", "i", "o", "n">>)
            /\ ~\E state \in validStates : includes(toLowerCase(value), state)
         THEN << ValidationWarning(field,
                   "Uncommon state of incorporation", "low") >>
         ELSE << >>)
        \o
        (IF /\ includes(lower, <<"v", "a", "l", "u", "a", "t", "i", "o", "n">>) /\ includes(lower, <<"c", "a", "p">>)
            /\ ~isNaN(amount) /\ numLessThanPow10(amount, 6)
         THEN << ValidationWarning(field,
                   "Valuation cap seems low for a typical SAFE", "medium") >>
         ELSE << >>))

\* Variant of hasNoValue that does not trim: only absent and "" are empty.
hasNoValue_untrimmed(filledFields, id) ==
  id \notin DOMAIN filledFields \/ filledFields[id] = << >>

\* const value = filledFields[field.id]; (!value || value.trim() === '')
hasNoValue(filledFields, id) ==
  \/ id \notin DOMAIN filledFields
  \/ filledFields[id] = << >>
  \/ trim(filledFields[id]) = << >>

\* The body of fields.forEach: what one field adds to errors and warnings.
validateEach(field, filledFields, parsed) ==
  IF field.required /\ hasNoValue(filledFields, field.id)
  THEN Findings(<< ValidationError(field, "REQUIRED_FIELD_MISSING") >>, << >>)
  ELSE IF hasNoValue(filledFields, field.id)
  THEN NoFindings
  ELSE
    LET value == filledFields[field.id]
        typed == IF field.type = "currency"
                 THEN DocumentValidator_validateCurrency(field, value)
                 ELSE IF field.type = "date"
                 THEN DocumentValidator_validateDate(field, parsed)
                 ELSE IF field.type = "text"
                 THEN DocumentValidator_validateText(field, value)
                 ELSE NoFindings
        special == validateSpecialFields(field, value)
    IN  Findings(typed.errors \o special.errors,
                 typed.warnings \o special.warnings)

RECURSIVE validateFrom(_, _, _, _)
validateFrom(fields, filledFields, parsedDates, i) ==
  IF i > Len(fields) THEN NoFindings
  ELSE LET here == validateEach(fields[i], filledFields, parsedDates[i])
           rest == validateFrom(fields, filledFields, parsedDates, i + 1)
       IN  Findings(here.errors \o rest.errors, here.warnings \o rest.warnings)

\* DocumentValidator.validate.  `warnings` is undefined in the result when
\* there are none; the empty list stands for that.
validate(fields, filledFields, parsedDates) ==
  LET found == validateFrom(fields, filledFields, parsedDates, 1)
  IN  [valid |-> Len(found.errors) = 0,
       errors |-> found.errors,
       warnings |-> found.warnings]

ValPlaceholders ==
  << <<"C", "o", "m", "p", "a", "n", "y", " ", "N", "a", "m", "e">>, <<"I", "n", "v", "e", "s", "t", "m", "e", "n", "t", " ", "A", "m", "o", "u", "n", "t">>, <<"D", "a", "t", "e", " ", "o", "f", " ", "S", "a", "f", "e">> >>

Absent == << "absent" >>

ValValues ==
  { << >>, <<" ", " ">>, <<"A", "c", "m", "e", " ", "I", "n", "c">>, <<"$", "5", "0", "0">>, <<"a">>,
    <<"0">>, <<"-", "1", "0", "0">>, <<"$", "1", "0", "0", ",", "0", "0", "0">>, <<"5", "0", "0", "0", "0", "0", "0", "0", "0">>, <<"n", "a", "m", "e">> }

\* Field lists with pairwise distinct placeholders, ids by position.
ValFieldLists ==
  { [i \in 1..n |->
       [id |-> FieldId("field-", i - 1),
        placeholder |-> ValPlaceholders[pick[i]],
        type |-> inferFieldType(ValPlaceholders[pick[i]]),
        required |-> req[i],
        order |-> i - 1]] :
      <<n, pick, req>> \in
        UNION { {n} \X { f \in [1..n -> 1..Len(ValPlaceholders)] :
                           \A a, b \in 1..n : a # b => f[a] # f[b] }
                    \X [1..n -> BOOLEAN] : n \in 0..MaxValFields } }

\* Value maps over the ids of a field list: each id absent or bound to a value.
ValueMaps(fields) ==
  { [id \in { fields[i].id : i \in { j \in 1..Len(fields) : choice[j] # Absent } }
       |-> LET i == CHOOSE j \in 1..Len(fields) : fields[j].id = id
           IN  choice[i]] :
      choice \in [1..Len(fields) -> ValValues \cup {Absent}] }

ValInit ==
  /\ valFields \in ValFieldLists
  /\ valFilled \in ValueMaps(valFields)
  /\ valResult = [valid |-> TRUE, errors |-> << >>, warnings |-> << >>]
  /\ valPc = "start"
  /\ ChatIdle /\ DedupIdle /\ GenIdle /\ DetIdle /\ FmtIdle /\ StoreIdle /\ TurnIdle /\ ParseIdle

\* validator.validate(fields, filledFields); the outcome of parsing each date
\* value is the library's and the clock's.
Validate ==
  /\ valPc = "start"
  /\ \E parsedDates \in [1..Len(valFields) -> DateParses] :
       /\ \A i \in 1..Len(valFields) :
            (valFields[i].type # "date" \/ hasNoValue(valFilled, valFields[i].id))
              => parsedDates[i] = "unparsable"
       /\ valResult' = validate(valFields, valFilled, parsedDates)
  /\ valPc' = "validated"
  /\ UNCHANGED << valFields, valFilled, chatVars, dedupVars, genVars, detVars, fmtVars, storeVars, turnVars, parseVars >>

NextVal == Validate

SpecVal == ValInit /\ [][NextVal]_vars

\* A field's value is absent, empty or made of whitespace only.
ValueMissing(field) ==
  \/ field.id \notin DOMAIN valFilled
  \/ \A k \in 1..Len(valFilled[field.id]) :
       valFilled[field.id][k] \in {" ", "\t", "\n", "\r"}

ErrorsFor(field) ==
  { k \in 1..Len(valResult.errors) : valResult.errors[k].field = field.placeholder }

WarningsFor(field) ==
  { k \in 1..Len(valResult.warnings) :
      valResult.warnings[k].field = field.placeholder }

\* Per field: a required field without a value gets exactly one error, coded
\* REQUIRED_FIELD_MISSING, and no warning; an optional field without a value
\* gets no error and no warning.
MissingValueFindings ==
  \A i \in 1..Len(valFields) :
    LET field == valFields[i]
    IN  ValueMissing(field) =>
          IF field.required
          THEN /\ Cardinality(ErrorsFor(field)) = 1
               /\ \A k \in ErrorsFor(field) :
                    valResult.errors[k].code = "REQUIRED_FIELD_MISSING"
               /\ WarningsFor(field) = {}
          ELSE ErrorsFor(field) = {} /\ WarningsFor(field) = {}

AllRequiredNoValues ==
  /\ \A i \in 1..Len(valFields) : valFields[i].required
  /\ DOMAIN valFilled = {}

\* C8 (as amended): DocumentValidator.validate yields, for each required
\* field whose value is absent, empty or whitespace-only, exactly one error
\* coded REQUIRED_FIELD_MISSING and no other error or warning for that field;
\* validating N >= 1 required fields against an empty value map gives
\* valid=false with exactly N errors (for N = 0 the result is valid=true with
\* no errors); an optional field with an empty value contributes no error and
\* no warning.
C8_RequiredMissingOnce ==
  valPc = "validated" =>
    /\ MissingValueFindings
    /\ AllRequiredNoValues =>
         /\ Len(valResult.errors) = Len(valFields)
         /\ valResult.valid = (Len(valFields) = 0)

\* C8 witness: two required fields were validated against an empty map.
C8_Witness ==
  /\ valPc = "validated"
  /\ Len(valFields) = 2
  /\ AllRequiredNoValues
  /\ ~valResult.valid

\* C8 as stated: in addition to the per-field findings, validating any list
\* of N required fields against an empty value map gives valid=false with
\* exactly N errors.
C8_AsStated ==
  valPc = "validated" =>
    /\ MissingValueFindings
    /\ AllRequiredNoValues =>
         /\ Len(valResult.errors) = Len(valFields)
         /\ ~valResult.valid

\* The amounts the values of the pool spell, read off by hand; the other
\* values spell no number.
SpelledAmounts ==
  { [value |-> <<"$", "5", "0", "0">>, amount |-> 500],
    [value |-> <<"0">>, amount |-> 0],
    [value |-> <<"-", "1", "0", "0">>, amount |-> -100],
    [value |-> <<"$", "1", "0", "0", ",", "0", "0", "0">>, amount |-> 100000],
    [value |-> <<"5", "0", "0", "0", "0", "0", "0", "0", "0">>, amount |-> 500000000] }

SpellsAmount(value) == \E s \in SpelledAmounts : s.value = value

AmountOf(value) == (CHOOSE s \in SpelledAmounts : s.value = value).amount

ErrorCodesFor(field) == { valResult.errors[k].code : k \in ErrorsFor(field) }

\* C14: a non-empty value on a currency field yields INVALID_CURRENCY when it
\* spells no number, INVALID_AMOUNT when it spells an amount <= 0 ("0" and
\* "-100" included) and no error when it spells an amount > 0; an amount
\* above 100,000,000 adds a warning only, and the result stays valid.
C14_CurrencyFindings ==
  valPc = "validated" =>
    \A i \in 1..Len(valFields) :
      LET field == valFields[i]
          value == valFilled[field.id]
      IN  (field.type = "currency" /\ ~ValueMissing(field)) =>
            /\ ~SpellsAmount(value) => ErrorCodesFor(field) = {"INVALID_CURRENCY"}
            /\ (SpellsAmount(value) /\ AmountOf(value) <= 0)
                 => ErrorCodesFor(field) = {"INVALID_AMOUNT"}
            /\ (SpellsAmount(value) /\ AmountOf(value) > 0)
                 => ErrorCodesFor(field) = {}
            /\ (SpellsAmount(value) /\ AmountOf(value) > 100000000)
                 => /\ WarningsFor(field) # {}
                    /\ Len(valFields) = 1 => valResult.valid

\* C14 witness: the only field is a currency field holding 500000000; the
\* result is valid and carries a warning.
C14_Witness ==
  /\ valPc = "validated"
  /\ Len(valFields) = 1
  /\ valFields[1].type = "currency"
  /\ valFields[1].id \in DOMAIN valFilled
  /\ valFilled[valFields[1].id] = <<"5", "0", "0", "0", "0", "0", "0", "0", "0">>
  /\ valResult.valid
  /\ Len(valResult.warnings) = 1

\* C14 witness of the rejections: "0" on a currency field was rejected with
\* INVALID_AMOUNT.
C14_ZeroRejected ==
  /\ valPc = "validated"
  /\ Len(valFields) = 1
  /\ valFields[1].type = "currency"
  /\ valFields[1].id \in DOMAIN valFilled
  /\ valFilled[valFields[1].id] = <<"0">>
  /\ ~valResult.valid
  /\ valResult.errors[1].code = "INVALID_AMOUNT"

(***************************************************************************)
(* ProductionDocumentGenerator.                                            *)
(***************************************************************************)
MaxPieces == 2

\* JavaScript values that occur in the data maps.
Str(s) == [t |-> "string", s |-> s]
Num(n) == [t |-> "number", n |-> n]
Undefined == [t |-> "undefined"]
InheritedFunction == [t |-> "function"]

Zero == [nan |-> FALSE, neg |-> FALSE, int |-> << "0" >>, frac |-> << >>]
Seven == [nan |-> FALSE, neg |-> FALSE, int |-> << "7" >>, frac |-> << >>]

\* !value
falsy(v) ==
  \/ v.t = "undefined"
  \/ v.t = "string" /\ v.s = << >>
  \/ v.t = "number" /\ (isNaN(v.n) \/ numIsZero(v.n))

\* Names every plain object inherits from Object.prototype.
ObjectPrototypeKeys ==
  { <<"c", "o", "n", "s", "t", "r", "u", "c", "t", "o", "r">>, <<"t", "o", "S", "t", "r", "i", "n", "g">>, <<"t", "o", "L", "o", "c", "a", "l", "e", "S", "t", "r", "i", "n", "g">>, <<"v", "a", "l", "u", "e", "O", "f">>,
    <<"h", "a", "s", "O", "w", "n", "P", "r", "o", "p", "e", "r", "t", "y">>, <<"i", "s", "P", "r", "o", "t", "o", "t", "y", "p", "e", "O", "f">>, <<"p", "r", "o", "p", "e", "r", "t", "y", "I", "s", "E", "n", "u", "m", "e", "r", "a", "b", "l", "e">> }

\* data[key] on an object literal: the own property, else the inherited
\* one, else undefined.
getProperty(data, key) ==
  IF key \in DOMAIN data THEN data[key]
  ELSE IF key \in ObjectPrototypeKeys THEN InheritedFunction
  ELSE Undefined

UpperOfLower ==
  [c \in {LowerChars[i] : i \in 1..Len(LowerChars)} |->
     UpperChars[CHOOSE i \in 1..Len(LowerChars) : LowerChars[i] = c]]

toUpperChar(c) == IF c \in DOMAIN UpperOfLower THEN UpperOfLower[c] ELSE c

\* The digits of a non-negative integer below 1000 as a number.
digitValue(d) == CHOOSE v \in 0..9 : << d >> = SubSeq(<<"0", "1", "2", "3", "4", "5", "6", "7", "8", "9">>, v + 1, v + 1)

RECURSIVE digitsToNat(_)
digitsToNat(ds) ==
  IF ds = << >> THEN 0
  ELSE 10 * digitsToNat(SubSeq(ds, 1, Len(ds) - 1)) + digitValue(ds[Len(ds)])

OnesWords ==
  << <<"o", "n", "e">>, <<"t", "w", "o">>, <<"t", "h", "r", "e", "e">>, <<"f", "o", "u", "r">>, <<"f", "i", "v", "e">>, <<"s", "i", "x">>, <<"s", "e", "v", "e", "n">>,
     <<"e", "i", "g", "h", "t">>, <<"n", "i", "n", "e">>, <<"t", "e", "n">>, <<"e", "l", "e", "v", "e", "n">>, <<"t", "w", "e", "l", "v", "e">>, <<"t", "h", "i", "r", "t", "e", "e", "n">>,
     <<"f", "o", "u", "r", "t", "e", "e", "n">>, <<"f", "i", "f", "t", "e", "e", "n">>, <<"s", "i", "x", "t", "e", "e", "n">>, <<"s", "e", "v", "e", "n", "t", "e", "e", "n">>, <<"e", "i", "g", "h", "t", "e", "e", "n">>,
     <<"n", "i", "n", "e", "t", "e", "e", "n">> >>

TensWords ==
  << <<"t", "w", "e", "n", "t", "y">>, <<"t", "h", "i", "r", "t", "y">>, <<"f", "o", "r", "t", "y">>, <<"f", "i", "f", "t", "y">>, <<"s", "i", "x", "t", "y">>, <<"s", "e", "v", "e", "n", "t", "y">>,
     <<"e", "i", "g", "h", "t", "y">>, <<"n", "i", "n", "e", "t", "y">> >>

\* toWords of number-to-words, for 0..999.
toWords(n) ==
  LET h == n \div 100
      r == n % 100
      hundreds == IF h > 0 THEN OnesWords[h] \o <<" ", "h", "u", "n", "d", "r", "e", "d">> ELSE << >>
      rest == IF r = 0 THEN << >>
              ELSE IF r < 20 THEN OnesWords[r]
              ELSE TensWords[(r \div 10) - 1]
                     \o (IF r % 10 > 0 THEN << "-" >> \o OnesWords[r % 10]
                         ELSE << >>)
  IN  IF n = 0 THEN <<"z", "e", "r", "o">>
      ELSE IF hundreds # << >> /\ rest # << >>
      THEN hundreds \o << " " >> \o rest
      ELSE hundreds \o rest

\* words.charAt(0).toUpperCase() + words.slice(1)
capitalize(words) ==
  IF words = << >> THEN << >>
  ELSE << toUpperChar(Head(words)) >> \o Tail(words)

\* numberToWords, for non-negative integers below 1000.
numberToWords(n) == capitalize(toWords(n))

\* Math.floor(numAmount), for a non-negative amount below 1000.
dollarsOf(num) == digitsToNat(stripLeadingZeros(num.int))

\* Math.round((numAmount - dollars) * 100)
centsOf(num) ==
  LET d(i) == IF i <= Len(num.frac) THEN digitValue(num.frac[i]) ELSE 0
  IN  10 * d(1) + d(2) + (IF d(3) >= 5 THEN 1 ELSE 0)

currencyToWords(num) ==
  numberToWords(dollarsOf(num)) \o <<" ", "D", "o", "l", "l", "a", "r", "s">>
    \o (IF centsOf(num) > 0
        THEN <<" ", "a", "n", "d", " ">> \o numberToWords(centsOf(num)) \o <<" ", "C", "e", "n", "t", "s">>
        ELSE << >>)

\* Add one to a decimal digit string.
RECURSIVE incDigits(_)
incDigits(ds) ==
  IF ds = << >> THEN << "1" >>
  ELSE LET last == ds[Len(ds)]
           init == SubSeq(ds, 1, Len(ds) - 1)
       IN  IF last = "9" THEN incDigits(init) \o << "0" >>
           ELSE init \o SubSeq(<<"0", "1", "2", "3", "4", "5", "6", "7", "8", "9">>, digitValue(last) + 2,
                               digitValue(last) + 2)

\* Digit grouping of the en-US locale.
RECURSIVE groupThousands(_)
groupThousands(ds) ==
  IF Len(ds) <= 3 THEN ds
  ELSE groupThousands(SubSeq(ds, 1, Len(ds) - 3))
         \o << "," >> \o SubSeq(ds, Len(ds) - 2, Len(ds))

\* formatCurrency with its default options: Intl.NumberFormat en-US, USD,
\* no fraction digits (rounded half away from zero).
formatCurrency(num) ==
  LET whole == IF stripLeadingZeros(num.int) = << >> THEN << "0" >>
               ELSE stripLeadingZeros(num.int)
      up == num.frac # << >> /\ num.frac[1] \in {"5", "6", "7", "8", "9"}
      rounded == IF up THEN stripLeadingZeros(incDigits(whole)) ELSE whole
  IN  (IF num.neg THEN << "-" >> ELSE << >>)
        \o << "$" >> \o groupThousands(rounded)

\* formatLegalDate's result: date-fns format(dateObj, 'MMMM d, yyyy').
FormattedDate == Str(<< "MMMM d, yyyy" >>)

\* crypto.randomBytes(8).toString('hex')
RandomDocumentId == Str(<< "16 hex digits" >>)

isCurrencyField(key, value) ==
  LET lowerKey == toLowerCase(key)
  IN  \/ includes(lowerKey, <<"a", "m", "o", "u", "n", "t">>)
      \/ includes(lowerKey, <<"p", "r", "i", "c", "e">>)
      \/ includes(lowerKey, <<"c", "o", "s", "t">>)
      \/ includes(lowerKey, <<"v", "a", "l", "u", "a", "t", "i", "o", "n">>)
      \/ includes(lowerKey, <<"c", "a", "p">>)
      \/ includes(lowerKey, <<"i", "n", "v", "e", "s", "t", "m", "e", "n", "t">>)
      \/ includes(lowerKey, <<"p", "u", "r", "c", "h", "a", "s", "e">>)
      \/ (value.t = "string" /\ includes(value.s, << "$" >>))

isDateField(key, value) ==
  LET lowerKey == toLowerCase(key)
  IN  \/ includes(lowerKey, <<"d", "a", "t", "e">>)
      \/ includes(lowerKey, <<"d", "a", "y">>)
      \/ (value.t = "string" /\ matchesNumericDate(value.s))

\* value.replace(/[^0-9.-]/g, '')
keepNumeric(s) == SelectSeq(s, LAMBDA c : c \in Digits \cup {".", "-"})

\* One step of the Object.entries(fields).forEach in transformForLegal.
\* dateFormats: whether formatLegalDate(value) returns (it throws on an
\* invalid date, and the catch keeps the original only).
transformEntry(transformed, key, value, dateFormats) ==
  LET direct == setKey(transformed, key, value)
      numValue == IF value.t = "string" THEN parseFloat(keepNumeric(value.s))
                  ELSE value.n
      withCurrency ==
        IF isCurrencyField(key, value) /\ ~isNaN(numValue)
        THEN setKey(setKey(direct, key \o <<"_", "f", "o", "r", "m", "a", "t", "t", "e", "d">>,
                           Str(formatCurrency(numValue))),
                    key \o <<"_", "w", "o", "r", "d", "s">>, Str(currencyToWords(numValue)))
        ELSE direct
      withDate ==
        IF isDateField(key, value) /\ dateFormats
        THEN setKey(withCurrency, key \o <<"_", "f", "o", "r", "m", "a", "t", "t", "e", "d">>, FormattedDate)
        ELSE withCurrency
  IN  IF value.t = "number" /\ ~isCurrencyField(key, value)
      THEN setKey(withDate, key \o <<"_", "w", "o", "r", "d", "s">>,
                  Str(numberToWords(dollarsOf(value.n))))
      ELSE withDate

RECURSIVE transformFrom(_, _, _, _)
transformFrom(entries, i, transformed, dateFormats) ==
  IF i > Len(entries) THEN transformed
  ELSE transformFrom(entries, i + 1,
                     transformEntry(transformed, entries[i].key,
                                    entries[i].value, dateFormats),
                     dateFormats)

EmptyObject == [k \in {} |-> Undefined]

transformForLegal(fields, dateFormats) ==
  setKey(setKey(transformFrom(fields, 1, EmptyObject, dateFormats),
                <<"c", "u", "r", "r", "e", "n", "t", "_", "d", "a", "t", "e">>, FormattedDate),
         <<"d", "o", "c", "u", "m", "e", "n", "t", "_", "i", "d">>, RandomDocumentId)

\* Successive matches of /\{([^}]+)\}/g over the text: the captured groups.
RECURSIVE matchTags(_)
matchTags(text) ==
  LET isOpen(c) == c = "{"
      isClose(c) == c = "}"
      i == findIndex(text, { e \in Elements(text) : isOpen(e) })
      after == SubSeq(text, i + 1, Len(text))
      j == findIndex(after, { e \in Elements(after) : isClose(e) })
  IN  IF i = 0 \/ j = 0 THEN << >>
      ELSE IF j = 1 THEN matchTags(after)
      ELSE << SubSeq(after, 1, j - 1) >>
             \o matchTags(SubSeq(after, j + 1, Len(after)))

isControlFlowTag(tagName) ==
  \/ startsWith(tagName, << "#" >>)
  \/ startsWith(tagName, << "/" >>)
  \/ startsWith(tagName, << "^" >>)

\* The Set of tag names, in insertion order.
RECURSIVE collectTags(_, _)
collectTags(matches, tags) ==
  IF matches = << >> THEN tags
  ELSE LET tagName == trim(Head(matches))
           same(t) == t = tagName
       IN  IF isControlFlowTag(tagName) \/ findIndex(tags, { e \in Elements(tags) : same(e) }) # 0
           THEN collectTags(Tail(matches), tags)
           ELSE collectTags(Tail(matches), Append(tags, tagName))

templateTags(fullText) == collectTags(matchTags(fullText), << >>)

\* if (!data[tag] && data[tag] !== 0)
hasNoData(data, tag) ==
  LET v == getProperty(data, tag)
  IN  falsy(v) /\ ~(v.t = "number" /\ numIsZero(v.n))

\* validateData: errors is the list of tags reported as
\* `Missing data for tag: <tag>`.
validateData(data, fullText) ==
  LET tags == templateTags(fullText)
      errors == SelectSeq(tags, LAMBDA tag : hasNoData(data, tag))
  IN  [valid |-> Len(errors) = 0, errors |-> errors]

\* createAuditLog
createAuditLog(fields) ==
  << [action |-> "document_generated", userId |-> "system"] >>
    \o [i \in 1..Len(fields) |->
          [action |-> "field_filled", field |-> fields[i].key,
           newValue |-> fields[i].value, userId |-> "user"]]

NoBuffer == "none"
NoAuditLog == << >>

\* `throw new Error("Document generation failed: " + cause)`
GenerationFailure(cause, missing, rendered) ==
  [ok |-> FALSE, rendered |-> rendered, buffer |-> NoBuffer,
   message |-> << "Document generation failed", cause >>,
   missing |-> missing, fieldCount |-> 0, auditLog |-> NoAuditLog,
   errorClass |-> "Error"]

\* handleError's code for what generate threw: error.code for an AppError,
\* UNKNOWN_ERROR for any other Error (a plain Error has no code property).
handleError(error) ==
  IF error.errorClass = "AppError" THEN error.code ELSE "UNKNOWN_ERROR"

\* generate.  renderThrows: whether doc.render() raises; dateFormats: see
\* transformEntry.
generate(template, fields, auditTrail, dateFormats, renderThrows) ==
  LET transformedData == transformForLegal(fields, dateFormats)
      validation == validateData(transformedData, template.fullText)
  IN  IF ~template.readable
      THEN GenerationFailure("template", << >>, FALSE)
      ELSE IF ~validation.valid
      THEN GenerationFailure("Validation failed", validation.errors, FALSE)
      ELSE IF renderThrows
      THEN GenerationFailure("render", << >>, TRUE)
      ELSE [ok |-> TRUE, rendered |-> TRUE, buffer |-> "docx",
            message |-> << >>, missing |-> << >>,
            fieldCount |-> Len(fields),
            auditLog |-> IF auditTrail THEN createAuditLog(fields)
                         ELSE NoAuditLog,
            errorClass |-> "none"]

\* Pieces of template text: value tags, a padded tag, a synthesized sibling,
\* a loop marker, a tag named like an inherited property, text with "{}".
TemplatePieces ==
  << <<"{", "C", "o", "m", "p", "a", "n", "y", " ", "N", "a", "m", "e", "}">>, <<"{", " ", "P", "u", "r", "c", "h", "a", "s", "e", " ", "A", "m", "o", "u", "n", "t", " ", "}">>, <<"{", "S", "h", "a", "r", "e", "s", "}">>,
     <<"{", "P", "u", "r", "c", "h", "a", "s", "e", " ", "A", "m", "o", "u", "n", "t", "_", "w", "o", "r", "d", "s", "}">>, <<"{", "m", "i", "s", "s", "i", "n", "g", "_", "f", "i", "e", "l", "d", "}">>, <<"{", "#", "i", "t", "e", "m", "s", "}">>,
     <<"{", "c", "o", "n", "s", "t", "r", "u", "c", "t", "o", "r", "}">>, <<"D", "e", "a", "r", " ", "{", "}">> >>

RECURSIVE concat(_)
concat(seqs) == IF seqs = << >> THEN << >> ELSE Head(seqs) \o concat(Tail(seqs))

TemplateTexts ==
  { concat([i \in 1..n |-> TemplatePieces[pick[i]]]) :
      <<n, pick>> \in UNION { {n} \X [1..n -> 1..Len(TemplatePieces)] :
                                n \in 0..MaxPieces } }

\* The caller's value map, in key order; each key absent or bound.
GenKeys ==
  << <<"C", "o", "m", "p", "a", "n", "y", " ", "N", "a", "m", "e">>, <<"P", "u", "r", "c", "h", "a", "s", "e", " ", "A", "m", "o", "u", "n", "t">>, <<"S", "h", "a", "r", "e", "s">>, <<"c", "u", "r", "r", "e", "n", "t", "_", "d", "a", "t", "e">> >>

GenValues ==
  << { Str(<<"A", "c", "m", "e", " ", "I", "n", "c">>), Str(<< >>) },
     { Str(<<"$", "1", "0", "0">>), Num(Zero) },
     { Num(Zero), Num(Seven) },
     { Str(<<"1", "/", "1", "/", "2", "0", "2", "4">>) } >>

GenFieldMaps ==
  { LET present == SelectSeq([i \in 1..Len(GenKeys) |-> i],
                             LAMBDA i : choice[i] # Undefined)
    IN  [k \in 1..Len(present) |->
           [key |-> GenKeys[present[k]], value |-> choice[present[k]]]] :
      choice \in { c \in [1..Len(GenKeys) -> UNION { GenValues[i] : i \in 1..Len(GenKeys) } \cup {Undefined}] :
                     \A i \in 1..Len(GenKeys) :
                       c[i] = Undefined \/ c[i] \in GenValues[i] } }

NoResult ==
  [ok |-> FALSE, rendered |-> FALSE, buffer |-> NoBuffer, message |-> << >>,
   missing |-> << >>, fieldCount |-> 0, auditLog |-> NoAuditLog,
   errorClass |-> "none"]

GenInit ==
  /\ genTemplate \in [readable : BOOLEAN, fullText : TemplateTexts]
  /\ genFields \in GenFieldMaps
  /\ genResult = NoResult
  /\ genPc = "start"
  /\ ChatIdle /\ DedupIdle /\ ValIdle /\ DetIdle /\ FmtIdle /\ StoreIdle /\ TurnIdle /\ ParseIdle

\* generator.generate(templateBuffer, fields, options).  Whether a date value
\* formats and whether render raises are the libraries' outcomes.
Generate ==
  /\ genPc = "start"
  /\ \E auditTrail \in BOOLEAN : \E renderThrows \in BOOLEAN :
     \E dateFormats \in
          (IF \E i \in 1..Len(genFields) :
                 isDateField(genFields[i].key, genFields[i].value)
           THEN BOOLEAN ELSE {FALSE}) :
       genResult' = generate(genTemplate, genFields, auditTrail,
                             dateFormats, renderThrows)
  /\ genPc' = "generated"
  /\ UNCHANGED << genTemplate, genFields, chatVars, dedupVars, valVars, detVars, fmtVars, storeVars, turnVars, parseVars >>

NextGen == Generate

SpecGen == GenInit /\ [][NextGen]_vars

\* The data map generate binds: the transformed map of the caller's values.
\* (No tag of the model's templates names a date sibling, so dateFormats is
\* immaterial to the tags that are bound.)
BoundData == transformForLegal(genFields, FALSE)

\* Leaf value tags of the template without a key in the transformed data map.
UnboundTags ==
  { t \in { templateTags(genTemplate.fullText)[i] :
              i \in 1..Len(templateTags(genTemplate.fullText)) } :
      t \notin DOMAIN BoundData }

ReportedMissing == { genResult.missing[i] : i \in 1..Len(genResult.missing) }

\* C7: generate fails, without rendering and without returning any output
\* buffer, whenever at least one leaf value tag of the template has no bound
\* value in the transformed data map; the failure message names every such
\* tag; a tag bound to numeric 0 is not reported as missing.
C7_FailsListingEveryMissingTag ==
  (genPc = "generated" /\ genTemplate.readable) =>
    /\ UnboundTags # {} =>
         /\ ~genResult.ok
         /\ ~genResult.rendered
         /\ genResult.buffer = NoBuffer
         /\ UnboundTags \subseteq ReportedMissing
    /\ \A t \in DOMAIN BoundData :
         (BoundData[t].t = "number" /\ numIsZero(BoundData[t].n))
           => t \notin ReportedMissing

\* The same statement over the templates none of whose tags is named like
\* a property inherited from Object.prototype.
C7_HoldsWithoutInheritedNames ==
  (\A t \in UnboundTags : t \notin ObjectPrototypeKeys)
    => C7_FailsListingEveryMissingTag

\* The audit log the specification describes for a value map: one
\* field_filled entry per key, in key order, then document_generated.
ExpectedAuditLog(fields) ==
  [i \in 1..Len(fields) |->
     [action |-> "field_filled", field |-> fields[i].key,
      newValue |-> fields[i].value, userId |-> "user"]]
    \o << [action |-> "document_generated", userId |-> "system"] >>

\* C17: when generate succeeds with auditTrail enabled, the audit log is one
\* field_filled entry per key of the value map, in key order, followed by
\* exactly one document_generated entry, the last of the log; without
\* auditTrail no audit log is returned.
C17_AuditLogEndsWithGenerated ==
  genPc = "start" =>
    \A auditTrail \in BOOLEAN : \A dateFormats \in BOOLEAN :
      LET r == generate(genTemplate, genFields, auditTrail, dateFormats, FALSE)
      IN  r.ok => r.auditLog = (IF auditTrail THEN ExpectedAuditLog(genFields)
                                ELSE NoAuditLog)

\* What the code does instead: document_generated is the first entry and the
\* field_filled entries follow in key order.
C17_GeneratedEntryFirst ==
  (genPc = "generated" /\ genResult.ok /\ genResult.auditLog # NoAuditLog) =>
    /\ Len(genResult.auditLog) = Len(genFields) + 1
    /\ genResult.auditLog[1].action = "document_generated"
    /\ \A i \in 1..Len(genFields) :
         /\ genResult.auditLog[i + 1].action = "field_filled"
         /\ genResult.auditLog[i + 1].field = genFields[i].key

\* A generated document whose audit log ends with a field_filled entry.
C17_GeneratedNotLast ==
  /\ genPc = "generated" /\ genResult.ok
  /\ Len(genResult.auditLog) >= 2
  /\ genResult.auditLog[Len(genResult.auditLog)].action = "field_filled"

\* C18: a generation failure caused by missing tag data and one caused by
\* an unreadable template are reported with different machine-readable
\* error codes.
C18_FailuresDifferByCode ==
  genPc = "start" =>
    LET missingData == generate([genTemplate EXCEPT !.readable = TRUE],
                                genFields, FALSE, FALSE, FALSE)
        unreadable == generate([genTemplate EXCEPT !.readable = FALSE],
                               genFields, FALSE, FALSE, FALSE)
    IN  (~missingData.ok /\ missingData.missing # << >>) =>
          /\ ~unreadable.ok
          /\ handleError(missingData) # handleError(unreadable)

\* What the code gives: the two failures are both plain Errors and differ in
\* the message text only.
C18_FailuresDifferByMessageOnly ==
  genPc = "start" =>
    LET missingData == generate([genTemplate EXCEPT !.readable = TRUE],
                                genFields, FALSE, FALSE, FALSE)
        unreadable == generate([genTemplate EXCEPT !.readable = FALSE],
                               genFields, FALSE, FALSE, FALSE)
    IN  (~missingData.ok /\ missingData.missing # << >>) =>
          /\ missingData.errorClass = "Error" /\ unreadable.errorClass = "Error"
          /\ handleError(missingData) = handleError(unreadable)
          /\ missingData.message # unreadable.message

\* A generation that failed on missing tag data, reported as a plain Error.
C18_MissingDataAsPlainError ==
  /\ genPc = "generated"
  /\ ~genResult.ok /\ genResult.missing # << >>
  /\ genResult.errorClass = "Error"
  /\ handleError(genResult) = "UNKNOWN_ERROR"

(***************************************************************************)
(* HybridFieldDetector: enrichment of a detected field list, with cache.   *)
(***************************************************************************)
MaxDetFields == 2
MaxCacheKeys == 1

\* UTF-16 code-unit order of the characters placeholders are made of; the
\* default comparison of Array.prototype.sort.
CharOrder == << " " >> \o UpperChars \o << "_" >> \o LowerChars \o << "|" >>

charCode ==
  [c \in { CharOrder[i] : i \in 1..Len(CharOrder) } |->
     CHOOSE i \in 1..Len(CharOrder) : CharOrder[i] = c]

RECURSIVE stringLess(_, _)
stringLess(a, b) ==
  IF b = << >> THEN FALSE
  ELSE IF a = << >> THEN TRUE
  ELSE IF Head(a) = Head(b) THEN stringLess(Tail(a), Tail(b))
  ELSE charCode[Head(a)] < charCode[Head(b)]

\* Array.prototype.sort() without a comparator (stable).
RECURSIVE sort(_)
sort(strings) ==
  IF strings = << >> THEN << >>
  ELSE LET sorted == sort(SubSeq(strings, 1, Len(strings) - 1))
           last == strings[Len(strings)]
           at == Cardinality({ i \in 1..Len(sorted) : ~stringLess(last, sorted[i]) })
       IN  SubSeq(sorted, 1, at) \o << last >> \o SubSeq(sorted, at + 1, Len(sorted))

RECURSIVE join(_, _)
join(strings, separator) ==
  IF strings = << >> THEN << >>
  ELSE IF Len(strings) = 1 THEN strings[1]
  ELSE strings[1] \o separator \o join(Tail(strings), separator)

generateCacheKey(documentType, fields) ==
  documentType \o <<":">>
    \o join(sort([i \in 1..Len(fields) |-> fields[i].placeholder]), <<"|">>)

getExamplesForType(type) ==
  CASE type = "currency" -> << "$100,000", "$1,000,000", "$50,000" >>
    [] type = "date" -> << "January 1, 2024", "March 15, 2024", "December 31, 2023" >>
    [] OTHER -> << "Example value", "Sample text", "Your value here" >>

RequiredRule ==
  [type |-> "required", rule |-> "Must not be empty",
   message |-> "This field is required"]

getValidationForType(type) ==
  CASE type = "currency" ->
         << RequiredRule,
            [type |-> "format", rule |-> "Must be a valid currency amount",
             message |-> "Please enter a valid dollar amount"] >>
    [] type = "date" ->
         << RequiredRule,
            [type |-> "format", rule |-> "Must be a valid date",
             message |-> "Please enter a valid date"] >>
    [] OTHER -> << RequiredRule >>

generateFallbackEnrichments(fields) ==
  [i \in 1..Len(fields) |->
     [placeholder |-> fields[i].placeholder,
      description |-> <<"P", "l", "e", "a", "s", "e", " ", "p", "r", "o", "v", "i", "d", "e", " ", "t", "h", "e", " ">> \o toLowerCase(fields[i].placeholder),
      examples |-> getExamplesForType(fields[i].type),
      validationRules |-> getValidationForType(fields[i].type),
      legalContext |-> Undefined,
      bestPractices |-> Undefined]]

\* What the Gemini call and the extraction of its answer come to: the call
\* rejects, result.text is empty, the text holds no [...] span, JSON.parse
\* throws on the span, or JSON.parse returns an array.
LlmRejects == [kind |-> "rejects", array |-> << >>]
LlmEmpty == [kind |-> "empty", array |-> << >>]
LlmNoJson == [kind |-> "noJson", array |-> << >>]
LlmUnparsable == [kind |-> "unparsable", array |-> << >>]
LlmArray(array) == [kind |-> "array", array |-> array]
NotCalled == [kind |-> "notCalled", array |-> << >>]

JsonNull == [t |-> "null"]

\* An element of the array Gemini answers with.
LlmEnrichment ==
  [placeholder |-> <<"C", "o", "m", "p", "a", "n", "y", " ", "N", "a", "m", "e">>,
   description |-> <<"T", "h", "e", " ", "l", "e", "g", "a", "l", " ", "n", "a", "m", "e", " ", "o", "f", " ", "t", "h", "e", " ", "c", "o", "m", "p", "a", "n", "y">>,
   examples |-> << "Acme Inc." >>,
   validationRules |-> << RequiredRule >>,
   legalContext |-> Str(<<"M", "u", "s", "t", " ", "m", "a", "t", "c", "h", " ", "t", "h", "e", " ", "i", "n", "c", "o", "r", "p", "o", "r", "a", "t", "i", "o", "n", " ", "d", "o", "c", "u", "m", "e", "n", "t", "s">>),
   bestPractices |-> Undefined]

\* Variant of enrichFieldsWithLLM without the length check on the array.
enrichFieldsWithLLM_noLengthCheck(fields, llm) ==
  IF llm.kind = "array" THEN llm.array ELSE generateFallbackEnrichments(fields)

enrichFieldsWithLLM(fields, llm) ==
  IF llm.kind = "array" /\ Len(llm.array) = Len(fields)
  THEN llm.array
  ELSE generateFallbackEnrichments(fields)

\* Variant of applyEnrichment that takes the placeholder the enrichment
\* echoes instead of the field's own.
applyEnrichment_enrichmentPlaceholder(fields, enrichments) ==
  [i \in 1..Len(fields) |->
     IF i > Len(enrichments) \/ enrichments[i] = JsonNull
     THEN fields[i]
     ELSE [id |-> fields[i].id,
           placeholder |-> enrichments[i].placeholder,
           type |-> fields[i].type,
           required |-> fields[i].required,
           order |-> fields[i].order,
           metadata |-> [description |-> enrichments[i].description,
                         examples |-> enrichments[i].examples,
                         validationRules |-> enrichments[i].validationRules,
                         legalContext |-> enrichments[i].legalContext,
                         bestPractices |-> enrichments[i].bestPractices]]]

\* const enrichment = enrichments[index]; if (!enrichment) return field;
applyEnrichment(fields, enrichments) ==
  [i \in 1..Len(fields) |->
     IF i > Len(enrichments) \/ enrichments[i] = JsonNull
     THEN fields[i]
     ELSE [id |-> fields[i].id,
           placeholder |-> fields[i].placeholder,
           type |-> fields[i].type,
           required |-> fields[i].required,
           order |-> fields[i].order,
           metadata |-> [description |-> enrichments[i].description,
                         examples |-> enrichments[i].examples,
                         validationRules |-> enrichments[i].validationRules,
                         legalContext |-> enrichments[i].legalContext,
                         bestPractices |-> enrichments[i].bestPractices]]]

\* Variant of cacheSet that keeps fallback enrichments out of the cache.
cacheSet_answersOnly(map, key, value) ==
  IF \E i \in 1..Len(value) : value[i] # JsonNull /\ value[i].legalContext = Undefined
  THEN map
  ELSE [k \in DOMAIN map \cup {key} |-> IF k = key THEN value ELSE map[k]]

\* Map.prototype.set
cacheSet(map, key, value) ==
  [k \in DOMAIN map \cup {key} |-> IF k = key THEN value ELSE map[k]]

\* detectFields: the result and the cache it leaves.  documentText is the
\* caller's argument; building the prompt reads documentText.substring
\* outside enrichFieldsWithLLM's own try, so an undefined text throws into
\* detectFields' catch.
detectFields(map, fields, documentText, documentType, llm) ==
  LET cacheKey == generateCacheKey(documentType, fields)
  IN  IF cacheKey \in DOMAIN map
      THEN [result |-> [fields |-> applyEnrichment(fields, map[cacheKey]),
                        confidence |-> "0.99", method |-> "hybrid",
                        metadata |-> [cached |-> TRUE]],
            cache |-> map, llm |-> NotCalled]
      ELSE IF documentText = Undefined
      THEN [result |-> [fields |-> fields,
                        confidence |-> "0.85", method |-> "template",
                        metadata |-> [error |-> "TypeError"]],
            cache |-> map, llm |-> NotCalled]
      ELSE LET enrichments == enrichFieldsWithLLM(fields, llm)
           IN  [result |-> [fields |-> applyEnrichment(fields, enrichments),
                            confidence |-> "0.99", method |-> "hybrid",
                            metadata |-> [cached |-> FALSE, llmUsed |-> TRUE,
                                          enrichmentCount |-> Len(enrichments)]],
                cache |-> cacheSet(map, cacheKey, enrichments), llm |-> llm]

\* Field shapes of the checked lists: two placeholders, the three types the
\* fallback distinguishes, one placeholder under two types.
DetShapes ==
  { [placeholder |-> <<"C", "o", "m", "p", "a", "n", "y", " ", "N", "a", "m", "e">>, type |-> "text"],
    [placeholder |-> <<"P", "u", "r", "c", "h", "a", "s", "e", " ", "A", "m", "o", "u", "n", "t">>, type |-> "currency"],
    [placeholder |-> <<"P", "u", "r", "c", "h", "a", "s", "e", " ", "A", "m", "o", "u", "n", "t">>, type |-> "date"] }

DetFieldLists ==
  UNION { { ParsedFields(shapes) : shapes \in [1..n -> DetShapes] } :
            n \in 0..MaxDetFields }

\* Arrays Gemini can answer with for a list of n fields: one object too few,
\* as many, one too many; with or without a null element.
LlmArrays(n) ==
  { [i \in 1..n |-> LlmEnrichment],
    [i \in 1..n |-> IF i = 1 THEN JsonNull ELSE LlmEnrichment],
    [i \in 1..(n + 1) |-> LlmEnrichment] }
    \cup { [i \in 1..(n - 1) |-> LlmEnrichment] : k \in { j \in {n} : j > 0 } }

LlmOutcomes(n) ==
  { LlmRejects, LlmEmpty, LlmNoJson, LlmUnparsable }
    \cup { LlmArray(array) : array \in LlmArrays(n) }

DocumentTexts == { Str(<<"S", "A", "F", "E">>), Undefined }

\* No call has completed yet.
NoCall == [key |-> << >>, method |-> "none", cleared |-> FALSE]

NoDetection ==
  [fields |-> << >>, confidence |-> "none", method |-> "none",
   metadata |-> [cached |-> FALSE]]

DetInit ==
  /\ cache = << >>
  /\ detFields = << >>
  /\ detLlm = NotCalled
  /\ detText = Undefined
  /\ detResult = NoDetection
  /\ detPc = "init"
  /\ detCall = [key |-> << >>, cached |-> FALSE]
  /\ detPrev = NoCall
  /\ ChatIdle /\ DedupIdle /\ GenIdle /\ ValIdle /\ FmtIdle /\ StoreIdle /\ TurnIdle /\ ParseIdle

\* The arguments and Gemini outcomes of one run; what a run does not read
\* (the text and Gemini on a cache hit, Gemini when the text is undefined)
\* is not varied.
DetCalls(fields) ==
  IF generateCacheKey(<<"S", "A", "F", "E">>, fields) \in DOMAIN cache
  THEN { [documentText |-> Str(<<"S", "A", "F", "E">>), llm |-> LlmRejects] }
  ELSE { [documentText |-> Undefined, llm |-> LlmRejects] }
         \cup { [documentText |-> Str(<<"S", "A", "F", "E">>), llm |-> llm] :
                  llm \in LlmOutcomes(Len(fields)) }

DetectFields ==
  /\ detPc # "done"
  /\ \E fields \in DetFieldLists :
       /\ \/ generateCacheKey(<<"S", "A", "F", "E">>, fields) \in DOMAIN cache
          \/ Cardinality(DOMAIN cache) < MaxCacheKeys
       /\ \E call \in DetCalls(fields) :
            LET out == detectFields(cache, fields, call.documentText,
                                    <<"S", "A", "F", "E">>, call.llm)
            IN  /\ detFields' = fields
                /\ detLlm' = out.llm
                /\ detText' = call.documentText
                /\ detResult' = out.result
                /\ cache' = out.cache
                /\ detCall' = [key |-> generateCacheKey(<<"S", "A", "F", "E">>, fields),
                                cached |-> generateCacheKey(<<"S", "A", "F", "E">>, fields)
                                             \in DOMAIN cache]
                /\ detPc' = "done"
  /\ UNCHANGED detPrev
  /\ UNCHANGED << chatVars, dedupVars, genVars, valVars, fmtVars, storeVars, turnVars, parseVars >>

\* The caller has taken the result.
DetectReturn ==
  /\ detPc = "done"
  /\ detPc' = "returned"
  /\ detFields' = << >>
  /\ detLlm' = NotCalled
  /\ detText' = Undefined
  /\ detResult' = NoDetection
  /\ detPrev' = [key |-> detCall.key, method |-> detResult.method,
                 cleared |-> FALSE]
  /\ UNCHANGED << cache, detCall >>
  /\ UNCHANGED << chatVars, dedupVars, genVars, valVars, fmtVars, storeVars, turnVars, parseVars >>

ClearCache ==
  /\ detPc # "done"
  /\ cache # << >>
  /\ cache' = << >>
  /\ detPrev' = [detPrev EXCEPT !.cleared = TRUE]
  /\ UNCHANGED << detFields, detLlm, detText, detResult, detPc, detCall >>
  /\ UNCHANGED << chatVars, dedupVars, genVars, valVars, fmtVars, storeVars, turnVars, parseVars >>

NextDet == DetectFields \/ DetectReturn \/ ClearCache

SpecDet == DetInit /\ [][NextDet]_vars

\* C12: whatever the outcome of detectFields (cache hit, Gemini answer used,
\* fallback after a bad answer, internal error), the returned list is as
\* long as the input and has, index by index, the input's id, placeholder,
\* type, required flag and order; nothing but metadata is added.
C12_SameFieldsOut ==
  detPc = "done" =>
    /\ Len(detResult.fields) = Len(detFields)
    /\ \A i \in 1..Len(detFields) :
         /\ detResult.fields[i].id = detFields[i].id
         /\ detResult.fields[i].placeholder = detFields[i].placeholder
         /\ detResult.fields[i].type = detFields[i].type
         /\ detResult.fields[i].required = detFields[i].required
         /\ detResult.fields[i].order = detFields[i].order
         /\ DOMAIN detResult.fields[i] \subseteq DOMAIN detFields[i] \cup {"metadata"}

\* C12 witness: a cache hit enriched a two-field list whose placeholders
\* differ from the ones the cached enrichments echo at the same index.
C12_Witness ==
  /\ detPc = "done"
  /\ detResult.method = "hybrid" /\ detLlm = NotCalled
  /\ Len(detFields) = 2
  /\ detFields[1].placeholder # detFields[2].placeholder
  /\ \E key \in DOMAIN cache :
       /\ Len(cache[key]) = 2
       /\ cache[key][1] # JsonNull
       /\ cache[key][1].placeholder # detFields[1].placeholder
  /\ "metadata" \in DOMAIN detResult.fields[1]

\* The Gemini outcomes C13 is about.
LlmFailed ==
  \/ detLlm.kind \in {"rejects", "empty", "noJson", "unparsable"}
  \/ detLlm.kind = "array" /\ Len(detLlm.array) # Len(detFields)

\* The fallback metadata of a placeholder and a type, computed on a field
\* that has nothing else.
FallbackMetadata(placeholder, type) ==
  LET e == generateFallbackEnrichments(
             << [placeholder |-> placeholder, type |-> type] >>)[1]
  IN  [description |-> e.description, examples |-> e.examples,
       validationRules |-> e.validationRules,
       legalContext |-> e.legalContext, bestPractices |-> e.bestPractices]

\* C13: when the Gemini call rejects, answers with nothing, with text that
\* holds no parsable JSON array, or with an array of another length than
\* the field list, detectFields returns normally and every returned field
\* carries the fallback enrichment of its own placeholder and type.
C13_FallbackOnBadAnswer ==
  (detPc = "done" /\ LlmFailed) =>
    /\ detResult.method = "hybrid"
    /\ Len(detResult.fields) = Len(detFields)
    /\ \A i \in 1..Len(detFields) :
         /\ "metadata" \in DOMAIN detResult.fields[i]
         /\ detResult.fields[i].metadata
              = FallbackMetadata(detFields[i].placeholder, detFields[i].type)

\* C13 witness: Gemini answered three objects for two fields of different
\* types and the fields came back enriched.
C13_Witness ==
  /\ detPc = "done"
  /\ detLlm.kind = "array" /\ Len(detLlm.array) = 3
  /\ Len(detFields) = 2
  /\ detFields[1].type = "text" /\ detFields[2].type = "date"
  /\ "metadata" \in DOMAIN detResult.fields[2]

(***************************************************************************)
(* Currency round trip: parseCurrency(formatCurrency(amount)).             *)
(***************************************************************************)
MaxIntDigits == 4

\* Canonical decimal digit strings of a JavaScript number's integer part.
IntParts ==
  { ds \in UNION { [1..n -> {"0", "1", "9"}] : n \in 1..MaxIntDigits } :
      Len(ds) > 1 => ds[1] # "0" }

\* At most two decimal places.
FracParts == UNION { [1..n -> {"0", "4", "5"}] : n \in 0..2 }

\* Non-negative amounts without fractional cents.
Amounts ==
  { [nan |-> FALSE, neg |-> FALSE, int |-> ip, frac |-> fp] :
      ip \in IntParts, fp \in FracParts }

RECURSIVE stripTrailingZeros(_)
stripTrailingZeros(ds) ==
  IF ds # << >> /\ ds[Len(ds)] = "0"
  THEN stripTrailingZeros(SubSeq(ds, 1, Len(ds) - 1))
  ELSE ds

\* a === b on numbers
sameNumber(a, b) ==
  /\ ~a.nan /\ ~b.nan
  /\ stripLeadingZeros(a.int) = stripLeadingZeros(b.int)
  /\ stripTrailingZeros(a.frac) = stripTrailingZeros(b.frac)
  /\ (a.neg = b.neg \/ numIsZero(a))

FmtInit ==
  /\ fmtAmount \in Amounts
  /\ fmtFormatted = << >>
  /\ fmtParsed = NaN
  /\ fmtPc = "start"
  /\ ChatIdle /\ DedupIdle /\ GenIdle /\ ValIdle /\ DetIdle /\ StoreIdle /\ TurnIdle /\ ParseIdle

\* const formatted = formatCurrency(amount)
FormatCurrency ==
  /\ fmtPc = "start"
  /\ fmtFormatted' = formatCurrency(fmtAmount)
  /\ fmtPc' = "formatted"
  /\ UNCHANGED << fmtAmount, fmtParsed >>
  /\ UNCHANGED << chatVars, dedupVars, genVars, valVars, detVars, storeVars, turnVars, parseVars >>

\* const parsed = parseCurrency(formatted)
ParseCurrency ==
  /\ fmtPc = "formatted"
  /\ fmtParsed' = parseCurrency(fmtFormatted)
  /\ fmtPc' = "parsed"
  /\ UNCHANGED << fmtAmount, fmtFormatted >>
  /\ UNCHANGED << chatVars, dedupVars, genVars, valVars, detVars, storeVars, turnVars, parseVars >>

NextFmt == FormatCurrency \/ ParseCurrency

SpecFmt == FmtInit /\ [][NextFmt]_vars

\* C15: for every non-negative amount with at most two decimal places,
\* parseCurrency(formatCurrency(amount)) is the amount, formatCurrency being
\* called with its default options.
C15_RoundTrip ==
  fmtPc = "parsed" => sameNumber(fmtParsed, fmtAmount)

\* The round trip holds for the amounts without cents.
C15_HoldsForWholeDollars ==
  (fmtPc = "parsed" /\ stripTrailingZeros(fmtAmount.frac) = << >>)
    => sameNumber(fmtParsed, fmtAmount)

\* The amount 1.5 came back as 2.
C15_CentsLost ==
  /\ fmtPc = "parsed"
  /\ fmtAmount.int = << "1" >> /\ fmtAmount.frac = << "5" >>
  /\ fmtFormatted = <<"$", "2">>
  /\ fmtParsed.int = << "2" >> /\ fmtParsed.frac = << >>

(***************************************************************************)
(* SessionStore: creation, write-back and the cleanup sweep.  Time is      *)
(* counted in hours.                                                       *)
(***************************************************************************)
MaxSessions == 2
MaxTime == 4

SessionIds == 1..MaxSessions

EmptyStore == [id \in {} |-> 0]

\* this.store.set(sessionId, {...data, createdAt: data.createdAt || new Date()})
\* `dated` tells whether data.createdAt is set.
storeSet(map, sessionId, dated, createdAt, clock) ==
  [id \in DOMAIN map \cup {sessionId} |->
     IF id = sessionId
     THEN (IF dated THEN createdAt ELSE clock)
     ELSE map[id]]

\* session.createdAt < oneHourAgo
cleanupDeletes(createdAt, clock) == createdAt < clock - 1

\* cleanup: the store it leaves and the count it returns.
cleanup(map, clock) ==
  LET deleted == { id \in DOMAIN map : cleanupDeletes(map[id], clock) }
  IN  [store |-> [id \in DOMAIN map \ deleted |-> map[id]],
       cleaned |-> Cardinality(deleted)]

StoreInit ==
  /\ store = EmptyStore
  /\ lastWritten = EmptyStore
  /\ now = 0
  /\ cleanedCount = 0
  /\ storePc = "running"
  /\ ChatIdle /\ DedupIdle /\ GenIdle /\ ValIdle /\ DetIdle /\ FmtIdle /\ TurnIdle /\ ParseIdle

\* Upload route: a new session, createdAt: new Date().
Upload ==
  /\ \E sessionId \in SessionIds \ DOMAIN store :
       /\ store' = storeSet(store, sessionId, TRUE, now, now)
       /\ lastWritten' = storeSet(lastWritten, sessionId, TRUE, now, now)
  /\ storePc' = "running"
  /\ UNCHANGED << now, cleanedCount >>
  /\ UNCHANGED << chatVars, dedupVars, genVars, valVars, detVars, fmtVars, turnVars, parseVars >>

\* Chat route: sessionStorage.get(sessionId), then the write-back
\* sessionStorage.set(sessionId, session) of the session object it loaded.
ChatWriteBack ==
  /\ \E sessionId \in DOMAIN store :
       /\ store' = storeSet(store, sessionId, TRUE, store[sessionId], now)
       /\ lastWritten' = storeSet(lastWritten, sessionId, TRUE, now, now)
  /\ storePc' = "running"
  /\ UNCHANGED << now, cleanedCount >>
  /\ UNCHANGED << chatVars, dedupVars, genVars, valVars, detVars, fmtVars, turnVars, parseVars >>

\* An hour passes.
Tick ==
  /\ now < MaxTime
  /\ now' = now + 1
  /\ storePc' = "running"
  /\ UNCHANGED << store, lastWritten, cleanedCount >>
  /\ UNCHANGED << chatVars, dedupVars, genVars, valVars, detVars, fmtVars, turnVars, parseVars >>

\* sessionStorage.cleanup()
Cleanup ==
  /\ LET swept == cleanup(store, now)
     IN  /\ store' = swept.store
         /\ lastWritten' = [id \in DOMAIN swept.store |-> lastWritten[id]]
         /\ cleanedCount' = swept.cleaned
  /\ storePc' = "cleaned"
  /\ UNCHANGED now
  /\ UNCHANGED << chatVars, dedupVars, genVars, valVars, detVars, fmtVars, turnVars, parseVars >>

NextStore == Upload \/ ChatWriteBack \/ Tick \/ Cleanup

SpecStore == StoreInit /\ [][NextStore]_vars

\* The sessions nothing has written for more than one hour.
IdleSessions == { id \in DOMAIN store : lastWritten[id] < now - 1 }

\* C19: the cleanup sweep removes exactly the sessions idle for more than one
\* hour and returns their number; a session created more than an hour ago
\* but written by a chat turn within the last hour is kept.
C19_CleanupRemovesIdleSessions ==
  [][storePc' = "cleaned" =>
       /\ DOMAIN store' = DOMAIN store \ IdleSessions
       /\ cleanedCount' = Cardinality(IdleSessions)]_vars

\* What cleanup does: it removes exactly the sessions created more than one
\* hour ago, written since or not, and returns their number.
C19_CleanupRemovesOldSessions ==
  [][storePc' = "cleaned" =>
       LET old == { id \in DOMAIN store : store[id] < now - 1 }
       IN  /\ DOMAIN store' = DOMAIN store \ old
           /\ cleanedCount' = Cardinality(old)]_vars

(***************************************************************************)
(* Overlapping chat requests on one session.  A POST runs without          *)
(* interruption from one `await` to the next; between two awaits another   *)
(* request of the same session may run.  sessionStorage.get returns the    *)
(* object the store holds, sessionStorage.set stores a shallow copy of it, *)
(* so every Session object of the session shares one filledFields object   *)
(* and carries its own status.                                             *)
(***************************************************************************)
MaxRequests == 2
MaxTurns == 3

Requests == 1..MaxRequests

TurnFields == SessionFields(0, MaxFields)

TurnMessages == { <<"A", "c", "m", "e", " ", "I", "n", "c">>, <<"$", "1", "0", "0">>, <<"$", "2", "5", "0">>, <<"a", "b">>, <<"c", "o", "n", "f", "i", "r", "m">> }

TurnLlmOutcomes ==
  { LLMFailure, [ok |-> TRUE, text |-> <<"a", "n", "s", "w", "e", "r">>], [ok |-> TRUE, text |-> <<"h", "e", "l", "p">>] }

IdleRequest ==
  [pc |-> "idle", ref |-> 0, field |-> 0, message |-> << >>, outcome |-> "none"]

\* The Session object numbered `ref`, as the route's code sees it.
sessionObject(ref) ==
  [fields |-> TurnFields, filledFields |-> filled,
   status |-> objects[ref].status, changingField |-> objects[ref].changingField]

othersInFlight(r) == \E q \in Requests \ {r} : requests[q].pc # "idle"

\* this.store.set(sessionId, {...data}): the store holds a new object, a copy
\* of `data` as it is now.
sessionSet(heap, data) == Append(heap, data)

TurnInit ==
  /\ objects = << [status |-> NoStatus, changingField |-> NoField] >>
  /\ stored = 1
  /\ filled = << >>
  /\ requests = [r \in Requests |-> IdleRequest]
  /\ stores = [started |-> 0, accepted |-> 0, overlapped |-> FALSE]
  /\ ChatIdle /\ DedupIdle /\ GenIdle /\ ValIdle /\ DetIdle /\ FmtIdle /\ StoreIdle /\ ParseIdle

\* POST with isFirstMessage = true, up to `await conversationAgent.execute`
\* of the greeting.
TurnStart(r) ==
  /\ requests[r].pc = "idle"
  /\ stores.started < MaxTurns
  /\ requests' = [requests EXCEPT ![r] =
                    [pc |-> "reply", ref |-> stored, field |-> 0,
                     message |-> << >>, outcome |-> "greeting"]]
  /\ stores' = [stores EXCEPT !.started = @ + 1,
                              !.overlapped = @ \/ othersInFlight(r)]
  /\ UNCHANGED << objects, stored, filled >>
  /\ UNCHANGED << chatVars, dedupVars, genVars, valVars, detVars, fmtVars, storeVars, parseVars >>

\* POST in the review phase: the branch has no await, the request runs from
\* sessionStorage.get to sessionStorage.set in one piece.  No message here
\* asks to change a field, so the changing branch is not entered.
TurnCommand(r) ==
  \E message \in TurnMessages :
    LET s == sessionObject(stored)
        result == ChatPOST(s, message, LLMFailure, FALSE, "NaN")
        written == [status |-> result.session.status,
                    changingField |-> result.session.changingField]
    IN  /\ requests[r].pc = "idle"
        /\ stores.started < MaxTurns
        /\ ~collecting(s)
        /\ objects' = sessionSet([objects EXCEPT ![stored] = written], written)
        /\ stored' = Len(objects) + 1
        /\ filled' = result.session.filledFields
        /\ stores' = [stores EXCEPT !.started = @ + 1,
                                    !.overlapped = @ \/ othersInFlight(r)]
        /\ UNCHANGED requests
        /\ UNCHANGED << chatVars, dedupVars, genVars, valVars, detVars, fmtVars, storeVars, parseVars >>

\* POST while collecting: sessionStorage.get, the read of currentFieldIndex
\* and currentField, then `await conversationAgent.execute`, which runs up to
\* `await this.detectIntent`.
TurnReceive(r) ==
  \E message \in TurnMessages :
    LET s == sessionObject(stored)
    IN  /\ requests[r].pc = "idle"
        /\ stores.started < MaxTurns
        /\ collecting(s)
        /\ requests' = [requests EXCEPT ![r] =
                          [pc |-> "intent", ref |-> stored,
                           field |-> currentFieldIndex(s),
                           message |-> message, outcome |-> "none"]]
        /\ stores' = [stores EXCEPT !.started = @ + 1,
                                    !.overlapped = @ \/ othersInFlight(r)]
        /\ UNCHANGED << objects, stored, filled >>
        /\ UNCHANGED << chatVars, dedupVars, genVars, valVars, detVars, fmtVars, storeVars, parseVars >>

\* handleUserResponse from the classifier's answer to its next LLM call: the
\* intent, the validation, and for a valid answer the read of
\* Object.keys(filledFields).length that decides between the review message
\* and the next question.
agentOutcome(message, currentField, llm) ==
  LET intent == detectIntent(message, llm)
  IN  IF intent # <<"a", "n", "s", "w", "e", "r">> THEN "conversational"
      ELSE IF ~validateField(message, currentField.type,
                             currentField.placeholder, "NaN").valid
      THEN "retry"
      ELSE IF isLastField(TurnFields, filled) THEN "reviewPhase"
      ELSE "fill"

TurnValidated(r) ==
  \E llm \in TurnLlmOutcomes :
    /\ requests[r].pc = "intent"
    /\ requests' = [requests EXCEPT ![r] =
                      [@ EXCEPT !.pc = "reply",
                                !.outcome =
                                   agentOutcome(requests[r].message,
                                                TurnFields[requests[r].field],
                                                llm)]]
    /\ UNCHANGED << objects, stored, filled, stores >>
    /\ UNCHANGED << chatVars, dedupVars, genVars, valVars, detVars, fmtVars, storeVars, parseVars >>

\* What the route does with result.data.
routeFills(outcome) == outcome \in {"reviewPhase", "fill"}

\* The route after `await conversationAgent.execute`: it writes the answer
\* under the id of the currentField it read before the await, sets the
\* status of the object it loaded, and hands that object to
\* sessionStorage.set.
TurnReply(r) ==
  LET request == requests[r]
      mine == objects[request.ref]
      written == IF request.outcome = "reviewPhase"
                 THEN [mine EXCEPT !.status = "review"]
                 ELSE mine
  IN  /\ request.pc = "reply"
      /\ filled' = IF routeFills(request.outcome)
                   THEN setKey(filled, TurnFields[request.field].id,
                               request.message)
                   ELSE filled
      /\ objects' = sessionSet([objects EXCEPT ![request.ref] = written], written)
      /\ stored' = Len(objects) + 1
      /\ requests' = [requests EXCEPT ![r] = IdleRequest]
      /\ stores' = [stores EXCEPT !.accepted =
                      IF routeFills(request.outcome) THEN @ + 1 ELSE @]
      /\ UNCHANGED << chatVars, dedupVars, genVars, valVars, detVars, fmtVars, storeVars, parseVars >>

NextTurns ==
  \E r \in Requests :
    \/ TurnStart(r)
    \/ TurnCommand(r)
    \/ TurnReceive(r)
    \/ TurnValidated(r)
    \/ TurnReply(r)

SpecTurns == TurnInit /\ [][NextTurns]_vars

\* No request is between sessionStorage.get and sessionStorage.set while
\* another one is.
OneTurnAtATime ==
  \A r \in Requests : requests[r].pc # "idle" => ~othersInFlight(r)

\* Every answer the route has stored filled a field of its own.
EachAnswerItsOwnField == keyCount(filled) = stores.accepted

\* C20: chat turns of one session are serialized: while one turn is suspended
\* at an LLM or validation call no other turn of the session reads or writes
\* its filledFields or status, so that two overlapping requests with valid
\* answers fill two different fields and raise the count of filledFields by
\* two.
C20_TurnsSerialized == OneTurnAtATime /\ EachAnswerItsOwnField

\* Two requests overlapped, both answers were valid and stored, and
\* filledFields has one entry: the second answer replaced the first.
C20_SameFieldWrittenTwice ==
  /\ stores.accepted = 2
  /\ keyCount(filled) = 1
  /\ \A r \in Requests : requests[r].pc = "idle"

\* As long as no request was received while another was in flight, every
\* stored answer has filled a field of its own.
C20_HoldsWithoutOverlap == ~stores.overlapped => EachAnswerItsOwnField
(***************************************************************************)
(* Further properties of the chat state machine.                           *)
(***************************************************************************)
\* The ids of the first k fields of session s, in list order.
FirstIds(s, k) == { s.fields[i].id : i \in 1..k }

AnswerStored(reply) == reply \in {"next_question", "review_summary"}

\* C21: throughout the collecting phase the active field is fields[n], n the
\* number of filledFields entries: the filled field ids are the ids of the
\* first n fields, and a turn that accepts an answer stores it under the id
\* of fields[n], so that after k accepted answers the filled ids are exactly
\* the ids of the first k fields in list order.
C21_FilledIdsAreFirstFields ==
  LET n == keyCount(session.filledFields)
  IN  /\ DOMAIN session.filledFields = FirstIds(session, n)
      /\ collecting(session) =>
           \A message \in Messages : \A llm \in LLMOutcomes :
           \A dateObj \in DateOutcomes :
             LET turn == ChatPOST(session, message, llm, TRUE, dateObj)
             IN  IF AnswerStored(turn.reply)
                 THEN /\ DOMAIN turn.session.filledFields
                           = FirstIds(session, n + 1)
                      /\ turn.session.filledFields[session.fields[n + 1].id]
                           = message
                 ELSE turn.session.filledFields = session.filledFields

\* C21 witness: one answer was accepted, it sits under the first field's id
\* and the second field is the active one.
C21_Witness ==
  /\ collecting(session)
  /\ lastReply = "next_question"
  /\ DOMAIN session.filledFields = {session.fields[1].id}
  /\ currentFieldIndex(session) = 2

\* The agent's result for a message sent while session s is collecting.
agentResult(s, message, llm) ==
  handleUserResponse(message, s.fields, s.filledFields,
                     s.fields[currentFieldIndex(s)].id, llm, TRUE, "NaN")

\* C22: when a collecting turn is classified as navigate and the message
\* matches another field's placeholder, nothing is stored in that turn and
\* the matched field becomes the active one: the next accepted answer is
\* stored under the matched field's id.  When no field matches, the active
\* field and filledFields are unchanged.
C22_NavigationMovesActiveField ==
  collecting(session) =>
    \A message \in Messages : \A llm \in LLMOutcomes :
      LET result == agentResult(session, message, llm)
          active == session.fields[currentFieldIndex(session)]
          after == ChatPOST(session, message, llm, TRUE, "NaN").session
      IN  /\ (result.kind = "navigate_found" /\ result.skipTo # active.id) =>
               /\ after.filledFields = session.filledFields
               /\ \A answer \in Messages : \A dateObj \in DateOutcomes :
                    LET next == ChatPOST(after, answer, LLMFailure, TRUE, dateObj)
                    IN  AnswerStored(next.reply) =>
                          /\ result.skipTo \in DOMAIN next.session.filledFields
                          /\ next.session.filledFields[result.skipTo] = answer
          /\ result.kind = "navigate_not_found" =>
               /\ after.filledFields = session.filledFields
               /\ currentFieldIndex(after) = currentFieldIndex(session)

\* What the route does with a navigate result: found or not, the turn stores
\* nothing, the active field stays fields[n], and the next accepted answer
\* is stored under the id of fields[n].
C22_NavigationOnlyAnswered ==
  collecting(session) =>
    \A message \in Messages : \A llm \in LLMOutcomes :
      LET result == agentResult(session, message, llm)
          active == session.fields[currentFieldIndex(session)]
          after == ChatPOST(session, message, llm, TRUE, "NaN").session
      IN  result.kind \in {"navigate_found", "navigate_not_found"} =>
            /\ after = session
            /\ \A answer \in Messages : \A dateObj \in DateOutcomes :
                 LET next == ChatPOST(after, answer, LLMFailure, TRUE, dateObj)
                 IN  AnswerStored(next.reply) =>
                       next.session.filledFields
                         = setKey(session.filledFields, active.id, answer)

\* The user has just asked to go to the second field while the first one is
\* active, and was told "Sure! Let's fill in ...".
C22_NavigatedToLaterField ==
  /\ lastReply = "navigate_found"
  /\ collecting(session)
  /\ keyCount(session.filledFields) = 0
  /\ Len(session.fields) = 2
  /\ session.fields[2].placeholder = <<"P", "u", "r", "c", "h", "a", "s", "e", " ", "A", "m", "o", "u", "n", "t">>

\* C23: a collecting turn whose message is classified as question or help
\* changes neither filledFields nor the status nor the active field, whether
\* the LLM answers or the static fallback text is used; the same field is
\* active on the next turn.
C23_QuestionLeavesSessionAlone ==
  collecting(session) =>
    \A message \in Messages : \A llm \in LLMOutcomes :
    \A answerOk \in BOOLEAN : \A dateObj \in DateOutcomes :
      detectIntent(message, llm) \in { <<"q", "u", "e", "s", "t", "i", "o", "n">>, <<"h", "e", "l", "p">> } =>
        LET turn == ChatPOST(session, message, llm, answerOk, dateObj)
        IN  /\ turn.reply = (IF answerOk THEN "help_llm" ELSE "help_fallback")
            /\ turn.session.filledFields = session.filledFields
            /\ turn.session.status = session.status
            /\ currentFieldIndex(turn.session) = currentFieldIndex(session)
            /\ collecting(turn.session)

\* C23 witness: with one answer stored, a question about the second field
\* was answered with the fallback text, and the second field is still active.
C23_Witness ==
  /\ lastReply = "help_fallback"
  /\ collecting(session)
  /\ currentFieldIndex(session) = 2

\* The field name a "change <name>" message asks for.
RequestedName(message) == trim(substring(trim(toLowerCase(message)), 7))

\* A review-phase message that is a confirmation, or a change command whose
\* name is found in some field's placeholder.
ActsOnSession(s, message) ==
  LET lower == trim(toLowerCase(message))
  IN  \/ lower \in { <<"c", "o", "n", "f", "i", "r", "m">>, <<"d", "o", "n", "e">>, <<"f", "i", "n", "a", "l", "i", "z", "e">> }
      \/ /\ startsWith(lower, <<"c", "h", "a", "n", "g", "e", " ">>)
         /\ \E i \in 1..Len(s.fields) :
              includes(toLowerCase(s.fields[i].placeholder),
                       RequestedName(message))

\* C24: in the reviewing state a message that is none of the three commands,
\* a review/check command, and a change command whose name matches no field
\* all leave filledFields, the status and the pending-edit pointer unchanged.
C24_OtherInputChangesNothing ==
  session.status = "review" =>
    \A message \in Messages : \A llm \in LLMOutcomes :
    \A dateObj \in DateOutcomes :
      ~ActsOnSession(session, message) =>
        LET after == ChatPOST(session, message, llm, TRUE, dateObj).session
        IN  /\ after.filledFields = session.filledFields
            /\ after.status = session.status
            /\ after.changingField = session.changingField

\* C24 witness: a reviewing session was just sent a change command naming no
\* field and is still reviewing, nothing pending.
C24_Witness ==
  /\ session.status = "review"
  /\ lastReply = "change_not_found"
  /\ session.changingField = NoField
(***************************************************************************)
(* HybridFieldDetector: Gemini requests and the enrichment cache.          *)
(***************************************************************************)
\* The Gemini requests of the call that has just ended: enrichFieldsWithLLM
\* calls generateContent once, for the whole list.
LlmRequests == IF detLlm = NotCalled THEN 0 ELSE 1

KeyServedBefore ==
  detPrev.key = detCall.key /\ detPrev.method = "hybrid" /\ ~detPrev.cleared

\* What a call that has just ended shows.
CallUsesCache ==
  detPc = "done" =>
    /\ LlmRequests <= 1
    /\ detCall.cached => LlmRequests = 0
    /\ detResult.method = "hybrid" => detCall.key \in DOMAIN cache
    /\ KeyServedBefore => detCall.cached /\ LlmRequests = 0

C25_RequestAfterFailedCall ==
  /\ detPc = "done"
  /\ detPrev.key = detCall.key /\ detPrev.method = "template"
  /\ ~detPrev.cleared
  /\ LlmRequests = 1

\* The cache was cleared after a call had stored its enrichments, and the
\* next call with the same key sent a request to Gemini.
C25_RequestAfterClear ==
  /\ detPc = "done"
  /\ detPrev.key = detCall.key /\ detPrev.method = "hybrid"
  /\ detPrev.cleared
  /\ LlmRequests = 1

\* An enrichment generateFallbackEnrichments has produced: its placeholder
\* names the field it was produced for.
FallbackMade(e) ==
  /\ e # JsonNull
  /\ e.description = <<"P", "l", "e", "a", "s", "e", " ", "p", "r", "o", "v", "i", "d", "e", " ", "t", "h", "e", " ">> \o toLowerCase(e.placeholder)

\* C28: when detectFields is served from the cache, the enrichment attached
\* to each returned field is the one produced for a field with the same
\* placeholder, also when the list arrives in another order than the list
\* that filled the cache entry.
C28_CachedEnrichmentOfSamePlaceholder ==
  (detPc = "done" /\ detCall.cached) =>
    \A i \in 1..Len(detFields) :
      LET e == cache[detCall.key][i]
      IN  FallbackMade(e) =>
            /\ e.placeholder = detFields[i].placeholder
            /\ detResult.fields[i].metadata.description
                 = <<"P", "l", "e", "a", "s", "e", " ", "p", "r", "o", "v", "i", "d", "e", " ", "t", "h", "e", " ">>
                     \o toLowerCase(detFields[i].placeholder)

\* A cache hit for [Purchase Amount, Company Name] on the fallback stored
\* for [Company Name, Purchase Amount]: Purchase Amount carries the
\* description and examples made for Company Name.
C28_EnrichmentOfOtherField ==
  /\ detPc = "done" /\ detCall.cached
  /\ Len(detFields) = 2
  /\ detFields[1].placeholder = <<"P", "u", "r", "c", "h", "a", "s", "e", " ", "A", "m", "o", "u", "n", "t">>
  /\ detFields[2].placeholder = <<"C", "o", "m", "p", "a", "n", "y", " ", "N", "a", "m", "e">>
  /\ detResult.fields[1].metadata.description
       = <<"P", "l", "e", "a", "s", "e", " ", "p", "r", "o", "v", "i", "d", "e", " ", "t", "h", "e", " ", "c", "o", "m", "p", "a", "n", "y", " ", "n", "a", "m", "e">>
  /\ detResult.fields[1].metadata.examples = getExamplesForType("text")

\* Served from the cache, a list whose placeholders stand in the order of
\* the list that filled the entry gets, field by field, the enrichment made
\* for that placeholder.
C28_HoldsInCachedOrder ==
  (detPc = "done" /\ detCall.cached) =>
    \A i \in 1..Len(detFields) :
      LET e == cache[detCall.key][i]
      IN  (FallbackMade(e) /\ e.placeholder = detFields[i].placeholder) =>
            detResult.fields[i].metadata.description = e.description
(***************************************************************************)
(* The data map the generator binds to the template.                       *)
(***************************************************************************)
\* C27: in the data map the generator binds to the template, every key of
\* the input value map still maps to its original raw value: no synthesized
\* <key>_formatted or <key>_words sibling and neither injected key,
\* current_date or document_id, replaces a value the caller supplied under
\* that key; and current_date and document_id are always present.
C27_RawValuesKept ==
  \A dateFormats \in BOOLEAN :
    LET data == transformForLegal(genFields, dateFormats)
    IN  /\ \A i \in 1..Len(genFields) :
             /\ genFields[i].key \in DOMAIN data
             /\ data[genFields[i].key] = genFields[i].value
        /\ <<"c", "u", "r", "r", "e", "n", "t", "_", "d", "a", "t", "e">> \in DOMAIN data
        /\ <<"d", "o", "c", "u", "m", "e", "n", "t", "_", "i", "d">> \in DOMAIN data

\* What transformForLegal keeps: every input key other than current_date and
\* document_id that no other input key's _formatted or _words sibling spells
\* maps to its raw value, and the two injected keys are present.
C27_RawValuesKeptUnlessNamedAlike ==
  \A dateFormats \in BOOLEAN :
    LET data == transformForLegal(genFields, dateFormats)
        siblings == UNION { { genFields[i].key \o <<"_", "f", "o", "r", "m", "a", "t", "t", "e", "d">>,
                              genFields[i].key \o <<"_", "w", "o", "r", "d", "s">> } :
                            i \in 1..Len(genFields) }
    IN  /\ \A i \in 1..Len(genFields) :
             genFields[i].key \notin
               siblings \cup { <<"c", "u", "r", "r", "e", "n", "t", "_", "d", "a", "t", "e">>, <<"d", "o", "c", "u", "m", "e", "n", "t", "_", "i", "d">> } =>
                 /\ genFields[i].key \in DOMAIN data
                 /\ data[genFields[i].key] = genFields[i].value
        /\ data[<<"c", "u", "r", "r", "e", "n", "t", "_", "d", "a", "t", "e">>] = FormattedDate
        /\ data[<<"d", "o", "c", "u", "m", "e", "n", "t", "_", "i", "d">>] = RandomDocumentId

\* A document was generated from a value map whose key current_date held
\* the caller's own date, and the bound map holds the generator's date there.
C27_CallerDateReplaced ==
  /\ genPc = "generated"
  /\ \E i \in 1..Len(genFields) :
       /\ genFields[i].key = <<"c", "u", "r", "r", "e", "n", "t", "_", "d", "a", "t", "e">>
       /\ genFields[i].value = Str(<<"1", "/", "1", "/", "2", "0", "2", "4">>)
  /\ transformForLegal(genFields, TRUE)[<<"c", "u", "r", "r", "e", "n", "t", "_", "d", "a", "t", "e">>] = FormattedDate
(***************************************************************************)
(* From the uploaded template to the field list of the conversation:       *)
(* EnhancedDocumentParser.parse and UnifiedDocumentProcessor.parseDocument, *)
(* and from the filled fields to the generator's gate: the export route.   *)
(***************************************************************************)
MaxDocPieces == 2

\* Successive matches of /\[([^\]]+)\]/g over the text: the captured groups.
RECURSIVE matchBrackets(_)
matchBrackets(text) ==
  LET isOpen(c) == c = "["
      isClose(c) == c = "]"
      i == findIndex(text, { e \in Elements(text) : isOpen(e) })
      after == SubSeq(text, i + 1, Len(text))
      j == findIndex(after, { e \in Elements(after) : isClose(e) })
  IN  IF i = 0 \/ j = 0 THEN << >>
      ELSE IF j = 1 THEN matchBrackets(after)
      ELSE << SubSeq(after, 1, j - 1) >>
             \o matchBrackets(SubSeq(after, j + 1, Len(after)))

RECURSIVE dropUnderscores(_)
dropUnderscores(s) ==
  IF s # << >> /\ Head(s) = "_" THEN dropUnderscores(Tail(s)) ELSE s

\* (text.match(/_{3,}/g) || []).length
RECURSIVE countBlanks(_)
countBlanks(text) ==
  IF text = << >> THEN 0
  ELSE IF Head(text) = "_"
       THEN LET rest == dropUnderscores(text)
            IN  (IF Len(text) - Len(rest) >= 3 THEN 1 ELSE 0) + countBlanks(rest)
       ELSE countBlanks(Tail(text))

\* extractStructuredTags: the Set of tag names, then one Field per tag.
extractStructuredTags(fullText) ==
  LET tags == templateTags(fullText)
  IN  [i \in 1..Len(tags) |->
         [id |-> FieldId("field-", i - 1),
          placeholder |-> tags[i],
          type |-> inferFieldType(tags[i]),
          required |-> TRUE,
          order |-> i - 1]]

\* /^\d+$/.test(placeholder)
digitsOnly(s) == s # << >> /\ \A i \in 1..Len(s) : s[i] \in Digits

\* The while loop over the [..] matches; `seen` is the Set of lower-cased
\* placeholders.
RECURSIVE bracketFields(_, _, _)
bracketFields(matches, fields, seen) ==
  IF matches = << >> THEN [fields |-> fields, seen |-> seen]
  ELSE
    LET placeholder == trim(Head(matches))
        normalized == toLowerCase(placeholder)
    IN  IF Len(placeholder) < 2 \/ digitsOnly(placeholder)
           \/ normalized \in seen
        THEN bracketFields(Tail(matches), fields, seen)
        ELSE bracketFields(
               Tail(matches),
               Append(fields,
                      [id |-> FieldId("unstructured-", Len(fields)),
                       placeholder |-> placeholder,
                       type |-> inferFieldType(placeholder),
                       required |-> TRUE,
                       order |-> Len(fields)]),
               seen \cup {normalized})

\* `Blank_${index + 1}`
blankName(index) == <<"B", "l", "a", "n", "k", "_">> \o << <<"1", "2", "3", "4", "5", "6", "7", "8", "9">>[index + 1] >>

\* The forEach over the runs of underscores.
RECURSIVE blankFields(_, _, _, _)
blankFields(index, count, fields, seen) ==
  IF index >= count THEN fields
  ELSE IF toLowerCase(blankName(index)) \in seen
  THEN blankFields(index + 1, count, fields, seen)
  ELSE blankFields(index + 1, count,
                   Append(fields,
                          [id |-> FieldId("blank-", index),
                           placeholder |-> blankName(index),
                           type |-> "text",
                           required |-> FALSE,
                           order |-> Len(fields)]),
                   seen)

detectUnstructuredFields(text) ==
  LET bracketed == bracketFields(matchBrackets(text), << >>, {})
  IN  blankFields(0, countBlanks(text), bracketed.fields, bracketed.seen)

\* mergeFields: a Map keyed by placeholder.toLowerCase().trim(), structured
\* fields first; then id and order by position.
RECURSIVE mergeFrom(_, _, _, _)
mergeFrom(fields, i, merged, overwrite) ==
  IF i > Len(fields) THEN merged
  ELSE
    LET key == trim(toLowerCase(fields[i].placeholder))
        hasKey(e) == e.key = key
        at == findIndex(merged, { e \in Elements(merged) : hasKey(e) })
    IN  IF at = 0
        THEN mergeFrom(fields, i + 1,
                       Append(merged, [key |-> key, field |-> fields[i]]),
                       overwrite)
        ELSE IF overwrite
        THEN mergeFrom(fields, i + 1, [merged EXCEPT ![at].field = fields[i]],
                       overwrite)
        ELSE mergeFrom(fields, i + 1, merged, overwrite)

mergeFields(structuredFields, unstructuredFields) ==
  LET merged == mergeFrom(unstructuredFields, 1,
                          mergeFrom(structuredFields, 1, << >>, TRUE), FALSE)
  IN  [i \in 1..Len(merged) |->
         [merged[i].field EXCEPT !.id = FieldId("field-", i - 1),
                                 !.order = i - 1]]

\* EnhancedDocumentParser.parse: `allFields = mergeFields(...)` is computed and
\* logged, the result carries the two lists it was merged from.
parse(fullText) ==
  LET structuredTags == extractStructuredTags(fullText)
      unstructuredFields == detectUnstructuredFields(fullText)
      merged == mergeFields(structuredTags, unstructuredFields)
  IN  [structuredFields |-> structuredTags,
       unstructuredFields |-> unstructuredFields,
       logged |-> Len(merged)]

\* Variant of parseDocument that hands on the list mergeFields builds.
parseDocument_merged(fullText) ==
  LET parsed == parse(fullText)
  IN  smartDeduplication(mergeFields(parsed.structuredFields,
                                     parsed.unstructuredFields))

\* UnifiedDocumentProcessor.parseDocument
parseDocument(fullText) ==
  LET parsed == parse(fullText)
  IN  smartDeduplication(parsed.structuredFields \o parsed.unstructuredFields)

\* Pieces of template text: tags spelling one name three ways, another tag,
\* a loop marker, bracket placeholders, two brackets the detector skips, a
\* blank line.
DocPieces ==
  << <<"{", "C", "o", "m", "p", "a", "n", "y", " ", "N", "a", "m", "e", "}">>, <<"{", "c", "o", "m", "p", "a", "n", "y", "_", "n", "a", "m", "e", "}">>, <<"{", "C", "o", "m", "p", "a", "n", "y", "-", "N", "a", "m", "e", "}">>,
     <<"{", "P", "u", "r", "c", "h", "a", "s", "e", " ", "A", "m", "o", "u", "n", "t", "}">>, <<"{", "#", "i", "t", "e", "m", "s", "}">>, <<"[", "I", "n", "v", "e", "s", "t", "o", "r", " ", "N", "a", "m", "e", "]">>,
     <<"[", "c", "o", "m", "p", "a", "n", "y", " ", "n", "a", "m", "e", "]">>, <<"[", "x", "]">>, <<"[", "1", "2", "]">>, <<"_", "_", "_", "_">> >>

DocTexts ==
  { concat([i \in 1..n |-> DocPieces[pick[i]]]) :
      <<n, pick>> \in UNION { {n} \X [1..n -> 1..Len(DocPieces)] :
                                n \in 0..MaxDocPieces } }

\* fieldMap[key] = value on the route's object literal, as the list of its
\* entries in insertion order.
entrySet(entries, key, value) ==
  LET hasKey(e) == e.key = key
      at == findIndex(entries, { e \in Elements(entries) : hasKey(e) })
  IN  IF at = 0 THEN Append(entries, [key |-> key, value |-> value])
      ELSE [entries EXCEPT ![at].value = value]

isAlphanumeric(c) == c \in Elements(LowerChars) \cup Digits

\* .replace(/[^a-z0-9]+/g, '_')
RECURSIVE underscoreRuns(_, _)
underscoreRuns(s, inRun) ==
  IF s = << >> THEN << >>
  ELSE IF isAlphanumeric(Head(s))
  THEN << Head(s) >> \o underscoreRuns(Tail(s), FALSE)
  ELSE IF inRun THEN underscoreRuns(Tail(s), TRUE)
  ELSE << "_" >> \o underscoreRuns(Tail(s), TRUE)

\* .replace(/^_+|_+$/g, '')
stripUnderscores(s) ==
  LET isOther(c) == c # "_"
      first == findIndex(s, { e \in Elements(s) : isOther(e) })
      last == IF first = 0 THEN 0
              ELSE CHOOSE i \in 1..Len(s) :
                     s[i] # "_" /\ \A j \in (i + 1)..Len(s) : s[j] = "_"
  IN  IF first = 0 THEN << >> ELSE SubSeq(s, first, last)

\* The route's `normalized` key of a placeholder.
normalizedKey(placeholder) ==
  stripUnderscores(underscoreRuns(toLowerCase(placeholder), FALSE))

\* The loop of the export route over session.fields: for a field with a
\* truthy stored value, three keys.
RECURSIVE fieldMapFrom(_, _, _, _)
fieldMapFrom(fields, filledFields, i, fieldMap) ==
  IF i > Len(fields) THEN fieldMap
  ELSE
    LET field == fields[i]
        value == IF field.id \in DOMAIN filledFields
                 THEN filledFields[field.id] ELSE << >>
        bound == Str(value)
    IN  IF value = << >>
        THEN fieldMapFrom(fields, filledFields, i + 1, fieldMap)
        ELSE fieldMapFrom(
               fields, filledFields, i + 1,
               entrySet(entrySet(entrySet(fieldMap, field.placeholder, bound),
                                 toLowerCase(field.placeholder), bound),
                        normalizedKey(field.placeholder), bound))

exportFieldMap(fields, filledFields) ==
  fieldMapFrom(fields, filledFields, 1, << >>)

\* A value the conversation stores for a field of the given type.
StoredValue(type) ==
  CASE type = "currency" -> <<"$", "1", "0", "0">>
    [] type = "date" -> <<"1", "/", "1", "/", "2", "0", "2", "4">>
    [] OTHER -> <<"A", "c", "m", "e", " ", "I", "n", "c">>

NoParse == [structuredFields |-> << >>, unstructuredFields |-> << >>, logged |-> 0]

NoExport == [filledFields |-> << >>, fieldMap |-> << >>, result |-> NoResult]

ParseInit ==
  /\ docText \in DocTexts
  /\ docParse = NoParse
  /\ docFields = << >>
  /\ exportGate = NoExport
  /\ parsePc = "upload"
  /\ ChatIdle /\ DedupIdle /\ GenIdle /\ ValIdle /\ DetIdle /\ FmtIdle /\ StoreIdle /\ TurnIdle

\* DocumentAgent.parseDocument: the fields of processor.parseDocument become
\* session.fields (detectFields and detectDependencies keep every field's id,
\* placeholder and order).
ParseDocument ==
  /\ parsePc = "upload"
  /\ docParse' = parse(docText)
  /\ docFields' = parseDocument(docText)
  /\ parsePc' = "parsed"
  /\ UNCHANGED << docText, exportGate >>
  /\ UNCHANGED << chatVars, dedupVars, genVars, valVars, detVars, fmtVars, storeVars, turnVars >>

\* The export route, on a session whose first `answered` fields have a stored
\* value: the field map, then processor.generateDocument, which calls
\* generate with auditTrail: true.
Export ==
  /\ parsePc = "parsed"
  /\ \E answered \in 0..Len(docFields) : \E renderThrows \in BOOLEAN :
       LET filledFields ==
             [id \in { docFields[i].id : i \in 1..answered } |->
                StoredValue((CHOOSE f \in Elements(docFields) : f.id = id).type)]
           fieldMap == exportFieldMap(docFields, filledFields)
       IN  exportGate' =
             [filledFields |-> filledFields,
              fieldMap |-> fieldMap,
              result |-> generate([readable |-> TRUE, fullText |-> docText],
                                  fieldMap, TRUE, FALSE, renderThrows)]
  /\ parsePc' = "exported"
  /\ UNCHANGED << docText, docParse, docFields >>
  /\ UNCHANGED << chatVars, dedupVars, genVars, valVars, detVars, fmtVars, storeVars, turnVars >>

NextParse == ParseDocument \/ Export

SpecParse == ParseInit /\ [][NextParse]_vars

\* The structured tag is the field kept for every placeholder text that the
\* template carries both as a tag and in brackets.
StructuredWins ==
  \A i \in 1..Len(docParse.structuredFields) :
    \A j \in 1..Len(docParse.unstructuredFields) :
      LET tag == docParse.structuredFields[i]
          bracket == docParse.unstructuredFields[j]
      IN  trim(toLowerCase(tag.placeholder)) = trim(toLowerCase(bracket.placeholder))
            => /\ bracket \notin Elements(docFields)
               /\ \E f \in Elements(docFields) :
                    /\ f.id[1] = "field-"
                    /\ normalizePlaceholder(f.placeholder)
                         = normalizePlaceholder(tag.placeholder)

\* The field at position i (counted from 0) has order i.
OrderIsPosition ==
  \A i \in 1..Len(docFields) : docFields[i].order = i - 1

\* C26: in the field list that parseDocument hands to the conversation a
\* structured tag wins over an unstructured placeholder with the same
\* case-insensitive trimmed text, and the list is re-indexed by final
\* position: the field at position i has order i, so the order values are
\* pairwise distinct.
C26_StructuredWinsAndReindexed ==
  parsePc # "upload" => StructuredWins /\ OrderIsPosition

\* The structured tag wins in every parse.
C26_StructuredWins == parsePc # "upload" => StructuredWins

\* A parsed list with a tag and a bracket placeholder of different names, both
\* of order 0.
C26_TwoFieldsOfOrderZero ==
  /\ parsePc = "parsed"
  /\ Len(docFields) = 2
  /\ docFields[1].order = 0 /\ docFields[2].order = 0
  /\ docFields[1].id[1] = "field-" /\ docFields[2].id[1] = "unstructured-"

\* The list mergeFields builds inside parse has the order of the claim.
C26_MergedListReindexed ==
  LET merged == parseDocument_merged(docText)
  IN  \A i \in 1..Len(merged) : merged[i].order = i - 1

TemplateLeafTags == Elements(templateTags(docText))

EveryFieldStored ==
  /\ parsePc = "exported"
  /\ \A f \in Elements(docFields) : f.id \in DOMAIN exportGate.filledFields

MapKeys == { e.key : e \in Elements(exportGate.fieldMap) }

\* The template carries no two tags that smartDeduplication takes for one.
NoTagsMerged ==
  \A s, t \in TemplateLeafTags :
    normalizePlaceholder(s) = normalizePlaceholder(t) => s = t

\* C29: once every field of the deduplicated parse result has a stored value,
\* the value map the export route builds contains a key for every leaf tag of
\* the template and the generator's completeness gate passes, also when
\* deduplication merged several tags into one field.
C29_MapCoversEveryTag ==
  EveryFieldStored =>
    /\ TemplateLeafTags \subseteq MapKeys
    /\ exportGate.result.missing = << >>

\* Every field has a value, deduplication merged two tags into one field, and
\* generate reports the dropped tag as missing.
C29_MergedTagMissing ==
  /\ EveryFieldStored
  /\ ~NoTagsMerged
  /\ exportGate.result.missing # << >>
  /\ ~exportGate.result.ok

\* The map covers every tag of a template in which deduplication merged no two
\* tags.
C29_HoldsWithoutMergedTags ==
  EveryFieldStored /\ NoTagsMerged =>
    /\ TemplateLeafTags \subseteq MapKeys
    /\ exportGate.result.missing = << >>
(***************************************************************************)
(* The per-turn ValidationAgent against the DocumentValidator.             *)
(***************************************************************************)
\* validateField accepts the field's stored value in the conversation (the
\* chat passes the field's type and placeholder; no field here is a date).
AcceptedPerTurn(i) ==
  /\ valFields[i].type \in {"currency", "text"}
  /\ valFields[i].id \in DOMAIN valFilled
  /\ validateField(valFilled[valFields[i].id], valFields[i].type,
                   valFields[i].placeholder, "NaN").valid

\* validate reported a blocking error for the field.
BlockedAtValidation(i) ==
  \E e \in Elements(valResult.errors) : e.field = valFields[i].placeholder

\* C30: every value the per-turn ValidationAgent accepts for a currency or
\* text field produces no blocking error for that field in the legal-grade
\* DocumentValidator.
C30_PerTurnAcceptedPassesLegal ==
  valPc = "validated" =>
    \A i \in 1..Len(valFields) : AcceptedPerTurn(i) => ~BlockedAtValidation(i)

\* An amount of zero was accepted in the conversation and validate reports
\* INVALID_AMOUNT for it.
C30_ZeroAcceptedThenBlocked ==
  /\ valPc = "validated"
  /\ \E i \in 1..Len(valFields) :
       /\ AcceptedPerTurn(i)
       /\ valFields[i].type = "currency"
       /\ numIsZero(parseCurrency(valFilled[valFields[i].id]))
       /\ [field |-> valFields[i].placeholder, code |-> "INVALID_AMOUNT"]
            \in Elements(valResult.errors)

\* A name field whose accepted text is the word "name": PLACEHOLDER_VALUE.
C30_PlaceholderWordAcceptedThenBlocked ==
  /\ valPc = "validated"
  /\ \E i \in 1..Len(valFields) :
       /\ AcceptedPerTurn(i)
       /\ valFields[i].type = "text"
       /\ [field |-> valFields[i].placeholder, code |-> "PLACEHOLDER_VALUE"]
            \in Elements(valResult.errors)

\* The containment holds for amounts other than zero and for texts that are
\* not one of the placeholder words.
C30_HoldsForPositiveAmountsAndRealText ==
  valPc = "validated" =>
    \A i \in 1..Len(valFields) :
      /\ AcceptedPerTurn(i)
      /\ ~numIsZero(parseCurrency(valFilled[valFields[i].id]))
      /\ ~isPlaceholderValue(trim(valFilled[valFields[i].id]))
      => ~BlockedAtValidation(i)
====
